----------------------------- MODULE DataSetup ------------------------------
(***************************************************************************)
(* How the data channel of an FTP session is set up and used: PRET, PASV,  *)
(* CPSV, PORT, PROT, SSCN, REST and ABOR prepare it, LIST, STOR and RETR   *)
(* use it, and a kick may take it away from another goroutine meanwhile.   *)
(* A set-up is a listening port of the master, an address the client has   *)
(* given, or a transfer that waits on a slave; it is known by a number.    *)
(***************************************************************************)
EXTENDS Naturals

CONSTANTS SetupSettings,  \* records [thru, master, kick]: Config.Passthrough and Mode, a kick may come
          MaxSetups       \* bound: set-ups made

ASSUME DataSetupAssumption ==
  /\ SetupSettings \subseteq [thru : BOOLEAN, master : BOOLEAN, kick : BOOLEAN]
  /\ MaxSetups \in Nat

VARIABLES
  conf,             \* the setting
  s,                \* what the Session knows
  made,             \* set-ups so far
  open, waiting,    \* ports that listen on the master, transfers that wait on a slave, with
                    \* the TLS role it was told
  hand,             \* where the handler is, the set-up it uses, the offset, the TLS role
  kick,             \* where abortCurrentTransfer of the kick is
  dead,             \* a goroutine has panicked: the daemon is gone
  told, asked, left \* history: the set-up last announced, REST, set-ups that were let go

setupVars == <<conf, s, made, open, waiting, hand, kick, dead, told, asked, left>>

Unset == 0
Listings == {"LIST"}                \* and NLST, MLSD
Transferring == {"STOR", "RETR"}

Session == [pret : {"", "LIST", "STOR", "RETR"}, listener : 0..MaxSetups,
            active : 0..MaxSetups, slave : BOOLEAN, idx : 0..MaxSetups, rest : BOOLEAN,
            client : BOOLEAN, lastActive : BOOLEAN, sscn : BOOLEAN, priv : BOOLEAN]

Idle == [at |-> "idle", cmd |-> "", using |-> Unset, rest |-> FALSE, client |-> FALSE]

SetupInit ==
  /\ conf \in SetupSettings
  /\ s = [pret |-> "", listener |-> Unset, active |-> Unset, slave |-> FALSE, idx |-> Unset,
          rest |-> FALSE, client |-> FALSE, lastActive |-> FALSE, sscn |-> FALSE, priv |-> FALSE]
  /\ made = 0 /\ open = {} /\ waiting = {}
  /\ hand = Idle
  /\ kick = "no" /\ dead = FALSE
  /\ told = [setup |-> Unset, by |-> "", client |-> FALSE] /\ asked = FALSE /\ left = {}

(***************************************************************************)
(* clearPreparedTransferState and clearPassiveTransferSetup                *)
(***************************************************************************)

\* Mutant: PassthruSlave is set to nil before the abort looks at it.
ReleasedLate ==
  /\ open' = open \ {s.listener}
  /\ UNCHANGED waiting

Released ==             \* the slave's transfer is aborted, the listener closed
  /\ open' = open \ {s.listener}
  /\ waiting' = {w \in waiting : s.slave => w.setup # s.idx}

ClearedPassive == [s EXCEPT !.listener = Unset, !.slave = FALSE, !.idx = Unset, !.client = FALSE]

Cleared ==
  [ClearedPassive EXCEPT !.active = Unset, !.pret = "", !.rest = FALSE]

\* The handler returns and clears, deferred.
Finishes ==
  /\ s' = Cleared /\ Released
  /\ hand' = Idle
  /\ asked' = FALSE
  /\ UNCHANGED <<made, told, left, dead>>

At(place) == ~dead /\ hand.at = place
Ready == At("idle") /\ kick # "done" /\ UNCHANGED <<conf, kick, dead>>
Steady == UNCHANGED <<conf, kick>>

(***************************************************************************)
(* Commands that prepare.                                                  *)
(***************************************************************************)

Pret(c) ==              \* validatePretRequest may refuse it
  /\ Ready
  /\ s' \in {Cleared, [Cleared EXCEPT !.pret = c]} /\ Released
  /\ UNCHANGED <<made, hand, told, asked, left>>

Prot(private) ==
  /\ Ready
  /\ s' = [s EXCEPT !.priv = private]
  /\ UNCHANGED <<made, open, waiting, hand, told, asked, left>>

Sscn(on) ==
  /\ Ready /\ s.priv
  /\ s' = [s EXCEPT !.sscn = on]
  /\ UNCHANGED <<made, open, waiting, hand, told, asked, left>>

Rest ==
  /\ Ready
  /\ s' = [s EXCEPT !.rest = TRUE] /\ asked' = TRUE
  /\ UNCHANGED <<made, open, waiting, hand, told, left>>

HasPret == conf.master => s.pret # ""
Announce(setup, by, client) == told' = [setup |-> setup, by |-> by, client |-> client]
\* What is replaced without being closed or aborted.
Replaced == {s.listener, s.idx} \ {Unset}

PassiveRefused ==       \* PASV or CPSV without PRET
  /\ Ready /\ ~HasPret
  /\ s' = Cleared /\ Released
  /\ UNCHANGED <<made, hand, told, asked, left>>

PassiveFails ==         \* no slave has room for it, no port is free, CPSV without PROT P
  /\ Ready
  /\ s' = [s EXCEPT !.active = Unset]
  /\ UNCHANGED <<made, open, waiting, hand, told, asked, left>>

\* The slave listens in place of the master, for CPSV whatever is prepared.
Relayed(cpsv) == conf.thru /\ conf.master /\ (cpsv \/ s.pret \in Transferring)
Passive(cpsv) == Ready /\ HasPret /\ made < MaxSetups /\ (cpsv => s.priv) /\ made' = made + 1

SlaveListens(cpsv) ==
  /\ Passive(cpsv) /\ Relayed(cpsv)
  /\ s' = [s EXCEPT !.active = Unset, !.slave = TRUE, !.idx = made', !.listener = Unset]
  /\ waiting' = waiting \cup {[setup |-> made', client |-> cpsv]} /\ open' = open \ {s.listener}
  /\ left' = left \cup ({s.idx} \ {Unset})
  /\ Announce(made', "slave", cpsv)
  /\ UNCHANGED <<hand, asked>>

BadSlaveAddress(cpsv) ==    \* its address is not one that 227 can say
  /\ Passive(cpsv) /\ Relayed(cpsv)
  /\ s' = [ClearedPassive EXCEPT !.active = Unset]
  /\ open' = open \ {s.listener}
  /\ left' = left \cup ({s.idx} \ {Unset})
  /\ UNCHANGED <<waiting, hand, told, asked>>

\* Mutant: PASV after CPSV keeps the TLS role of that.
MasterListensAsBefore(cpsv) ==
  /\ Passive(cpsv) /\ ~Relayed(cpsv)
  /\ s' = [s EXCEPT !.active = Unset, !.listener = made', !.slave = FALSE,
                    !.idx = IF cpsv THEN @ ELSE Unset, !.client = @ \/ cpsv]
  /\ open' = open \cup {made'}
  /\ left' = left \cup Replaced
  /\ Announce(made', "master", cpsv)
  /\ UNCHANGED <<waiting, hand, asked>>

MasterListens(cpsv) ==
  /\ Passive(cpsv) /\ ~Relayed(cpsv)
  /\ s' = [s EXCEPT !.active = Unset, !.listener = made', !.slave = FALSE,
                    !.idx = IF cpsv THEN @ ELSE Unset, !.client = cpsv]
  /\ open' = open \cup {made'}
  /\ left' = left \cup Replaced
  /\ Announce(made', "master", cpsv)
  /\ UNCHANGED <<waiting, hand, asked>>

BadMasterAddress(cpsv) ==   \* PublicIP is none: the listener is closed, its TLS role stays
  /\ Passive(cpsv) /\ ~Relayed(cpsv)
  /\ s' = [s EXCEPT !.active = Unset, !.listener = Unset, !.slave = FALSE,
                    !.idx = IF cpsv THEN @ ELSE Unset, !.client = cpsv]
  /\ left' = left \cup Replaced
  /\ UNCHANGED <<open, waiting, hand, told, asked>>

Port ==
  /\ Ready /\ made < MaxSetups
  /\ made' = made + 1
  /\ s' = [ClearedPassive EXCEPT !.active = made'] /\ Released
  /\ Announce(made', "port", FALSE)
  /\ UNCHANGED <<hand, asked, left>>

BadPort ==              \* a syntax error, or an address that is not the client's
  /\ Ready
  /\ s' = ClearedPassive /\ Released
  /\ UNCHANGED <<made, hand, told, asked, left>>

Forgotten(t) ==         \* the last lines of abortCurrentTransfer
  [t EXCEPT !.listener = Unset, !.active = Unset, !.slave = FALSE, !.idx = Unset, !.pret = ""]

Abor ==                 \* read by the handler, so never during a transfer
  /\ Ready
  /\ s' = Forgotten(s)
  /\ open' = open \ {s.listener}
  /\ left' = left \cup ({s.idx} \ {Unset})
  /\ UNCHANGED <<made, waiting, hand, told, asked>>

(***************************************************************************)
(* Commands that use what is prepared.                                     *)
(***************************************************************************)

Prepared(c) ==
  \/ s.listener # Unset \/ s.active # Unset
  \/ c \in Transferring /\ s.slave

HandGoes(place) == hand' = [hand EXCEPT !.at = place]

Refused ==              \* nothing is prepared, or one of the checks fails
  /\ At("idle") /\ kick # "done" /\ Steady
  /\ Finishes

Takes(c) ==             \* the REST offset, once
  /\ Ready /\ Prepared(c)
  /\ hand' = [Idle EXCEPT !.at = "raw", !.cmd = c, !.rest = c \in Transferring /\ s.rest]
  /\ s' = IF c \in Transferring THEN [s EXCEPT !.rest = FALSE] ELSE s
  /\ UNCHANGED <<made, open, waiting, told, asked, left>>

Connects ==             \* the slave dials the address of PORT
  /\ At("raw") /\ Steady
  /\ conf.thru /\ conf.master /\ hand.cmd \in Transferring
  /\ s.active # Unset /\ ~s.slave
  /\ hand' = [hand EXCEPT !.at = "run", !.using = s.active, !.client = s.priv /\ s.sscn]
  /\ s' = [s EXCEPT !.active = Unset]
  /\ UNCHANGED <<made, open, waiting, dead, told, asked, left>>

\* getRawDataConn: a listener, else the address of PORT.  STOR looks for the slave
\* after it has failed, RETR before: the handler has checked that there is one.
Bridged == ~(conf.thru /\ conf.master /\ hand.cmd \in Transferring /\ s.active # Unset)

ToListener ==
  /\ At("raw") /\ Steady
  /\ s.listener # Unset
  /\ hand' = [hand EXCEPT !.at = "accept", !.using = s.listener]
  /\ UNCHANGED <<s, made, open, waiting, dead, told, asked, left>>

Dials ==
  /\ At("raw") /\ Steady
  /\ s.listener = Unset /\ s.active # Unset /\ Bridged
  /\ s' = [s EXCEPT !.active = Unset, !.lastActive = TRUE]
  /\ hand' = [hand EXCEPT !.at = "upgrade", !.using = s.active]
  /\ UNCHANGED <<made, open, waiting, dead, told, asked, left>>

ToSlave ==              \* PassthruSlave is set
  /\ At("raw") /\ Steady
  /\ s.listener = Unset /\ s.active = Unset /\ s.slave
  /\ hand.cmd \in Transferring
  /\ HandGoes("relay")
  /\ UNCHANGED <<s, made, open, waiting, dead, told, asked, left>>

NoChannel ==            \* a kick has taken it, or nobody answers at the address
  /\ At("raw") /\ Steady
  /\ s.listener = Unset /\ (hand.cmd \in Transferring => ~s.slave)
  /\ Finishes

Accepts ==              \* the client connects to the port
  /\ At("accept") /\ Steady
  /\ hand.using \in open
  /\ HandGoes("accepted")
  /\ UNCHANGED <<s, made, open, waiting, dead, told, asked, left>>

AcceptFails ==          \* ten seconds are over, or the port is closed
  /\ At("accept") /\ Steady
  /\ HandGoes("failed")
  /\ UNCHANGED <<s, made, open, waiting, dead, told, asked, left>>

\* s.DataListen.Close() and = nil, through the field and not a copy of it.
Shuts ==
  /\ (At("accepted") \/ At("failed")) /\ Steady
  /\ s.listener # Unset
  /\ open' = open \ {s.listener}
  /\ s' = [s EXCEPT !.listener = Unset, !.lastActive = FALSE]
  /\ HandGoes(IF hand.at = "accepted" THEN "upgrade" ELSE "end")
  /\ UNCHANGED <<made, waiting, dead, told, asked, left>>

\* A kick has set it to nil since it was checked.
Panics ==
  /\ Steady
  /\ \/ (At("accepted") \/ At("failed")) /\ s.listener = Unset
     \/ At("relay") /\ ~s.slave
     \/ kick = "close" /\ ~dead /\ s.listener = Unset
  /\ dead' = TRUE
  /\ UNCHANGED <<s, made, open, waiting, hand, told, asked, left>>

UpgradeDataTLS ==       \* only with PROT P; a handshake that fails ends the command
  /\ At("upgrade") /\ Steady
  /\ hand' \in {[hand EXCEPT !.at = "run",
                   !.client = s.priv /\ IF s.lastActive THEN s.sscn ELSE s.client],
                [hand EXCEPT !.at = "end"]}
  /\ s' = [s EXCEPT !.client = @ /\ ~s.priv]
  /\ UNCHANGED <<made, open, waiting, dead, told, asked, left>>

RelayStarts ==          \* the slave takes RECEIVE or SEND for the transfer that waits
  /\ At("relay") /\ Steady
  /\ s.slave
  /\ waiting' = {w \in waiting : w.setup # s.idx}
  /\ hand' = [hand EXCEPT !.at = "run", !.using = s.idx,
                           !.client = [setup |-> s.idx, client |-> TRUE] \in waiting]
  /\ UNCHANGED <<s, made, open, dead, told, asked, left>>

RelayRefused ==         \* it is offline, or has no such transfer: PassthruSlave is nil then
  /\ At("relay") /\ Steady
  /\ s.slave
  /\ s' = [s EXCEPT !.slave = FALSE]
  /\ left' = left \cup {s.idx}
  /\ HandGoes("end")
  /\ UNCHANGED <<made, open, waiting, dead, told, asked>>

TransferEnds ==         \* PassthruSlave = nil when the slave did it
  /\ At("run") /\ Steady
  /\ s' = [s EXCEPT !.slave = FALSE]
  /\ HandGoes("end")
  /\ UNCHANGED <<made, open, waiting, dead, told, asked, left>>

Clears == At("end") /\ Steady /\ Finishes

(***************************************************************************)
(* The end of the session.                                                 *)
(***************************************************************************)

Gone ==                 \* QUIT, or the connection is closed: nothing is released
  /\ At("idle") /\ Steady
  /\ HandGoes("gone")
  /\ left' = left \cup Replaced
  /\ UNCHANGED <<s, made, open, waiting, dead, told, asked>>

Kicking(from, to) ==
  /\ ~dead /\ kick = from /\ kick' = to
  /\ UNCHANGED <<conf, made, hand, dead, told, asked>>

KickLooks ==            \* after the transfer under way is aborted: DataListen != nil
  /\ conf.kick /\ hand.at # "gone"
  /\ Kicking("no", IF s.listener # Unset THEN "close" ELSE "wipe")
  /\ UNCHANGED <<s, open, waiting, left>>

KickCloses ==
  /\ s.listener # Unset
  /\ Kicking("close", "forget")
  /\ open' = open \ {s.listener}
  /\ UNCHANGED <<s, waiting, left>>

KickForgets ==
  /\ Kicking("forget", "wipe")
  /\ s' = [s EXCEPT !.listener = Unset]
  /\ left' = left \cup ({s.listener} \cap open)      \* a PASV came in between
  /\ UNCHANGED <<open, waiting>>

KickWipes ==            \* and Conn.Close
  /\ Kicking("wipe", "done")
  /\ s' = [Forgotten(s) EXCEPT !.listener = s.listener]
  /\ left' = left \cup ({s.idx} \ {Unset})
  /\ UNCHANGED <<open, waiting>>

Prepares ==
  \/ \E c \in Listings \cup Transferring : Pret(c)
  \/ \E b \in BOOLEAN : Prot(b) \/ Sscn(b) \/ SlaveListens(b) \/ MasterListens(b)
                     \/ BadSlaveAddress(b) \/ BadMasterAddress(b)
  \/ Rest \/ PassiveRefused \/ PassiveFails \/ Port \/ BadPort \/ Abor

Uses ==
  \/ \E c \in Listings \cup Transferring : Takes(c)
  \/ Refused \/ Connects \/ ToListener \/ Dials \/ ToSlave \/ NoChannel
  \/ Accepts \/ AcceptFails \/ Shuts \/ Panics \/ UpgradeDataTLS
  \/ RelayStarts \/ RelayRefused \/ TransferEnds \/ Clears

Kicks == KickLooks \/ KickCloses \/ KickForgets \/ KickWipes

SetupNext == Prepares \/ Uses \/ Gone \/ Kicks

SetupSpec == SetupInit /\ [][SetupNext]_setupVars

(***************************************************************************)
(* Properties.                                                             *)
(***************************************************************************)

SetupTypeOK ==
  /\ s \in Session /\ made \in 0..MaxSetups
  /\ open \subseteq 1..made
  /\ waiting \subseteq [setup : 1..made, client : BOOLEAN]
  /\ hand.at \in {"idle", "raw", "accept", "accepted", "failed", "upgrade", "relay", "run", "end", "gone"}
  /\ kick \in {"no", "close", "forget", "wipe", "done"}

\* Data goes where the client was last told it would, however PRET, PASV, CPSV, PORT
\* and ABOR were mixed; with PROT P in the TLS role that PASV, CPSV or SSCN gives the
\* daemon; and from an offset only if REST was sent since the last transfer.
LastSetupIsUsed ==
  hand.at = "run" =>
    /\ hand.using = told.setup
    /\ s.priv => hand.client = IF told.by = "port" THEN s.sscn ELSE told.client
    /\ hand.rest => asked

\* A port that listens and a transfer that waits on a slave are the session's current
\* ones: whatever fails, is refused or is kicked, they are closed and aborted with it.
\* Let go are those that a second PASV or CPSV, an ABOR, a kick or the end of the
\* session finds, and one whose slave refused it.
NothingForgotten ==
  /\ open \subseteq {s.listener} \cup left
  /\ \A w \in waiting : w.setup \in left \/ (s.slave /\ w.setup = s.idx)

\* site_info.go:76 "Disconnect a user": SITE KICK ends the sessions of a user, and
\* the daemon goes on.
KickEndsOneSession == ~dead
=============================================================================

--------------------------- MODULE MCFtpTransfer ---------------------------
(***************************************************************************)
(* FtpTransfer as TLC checks it.                                           *)
(***************************************************************************)
EXTENDS FtpTransfer, TLC

Symmetric == Permutations(Sessions)

\* Every data channel under kicks, and a passive one with what else can go on.
Kicked == [mode : {"pasv", "port", "bridged"}, may : {{"kick"}}]
Busy == [mode : {"pasv"},
         may : {{"kick", "delete", "rename"}, {"delete", "rename", "drop"}, {"kick", "drop"},
                {"timeout"}}]
AllSettings == Kicked \cup Busy

\* The data channel whose set-up waits for the slave, with lost links.
Connecting == {[mode |-> "port", may |-> {"kick", "delete", "drop"}]}
=============================================================================

--------------------------- MODULE TransferResult --------------------------
(***************************************************************************)
(* What a caller that waits for a transfer is promised: it returns with    *)
(* the transfer's own final status, once, and never before the slave has   *)
(* sent it; without one only when the slave is offline or the caller's     *)
(* deadline passes; and with the slave online it is not left waiting.      *)
(***************************************************************************)
CONSTANT Transfers

VARIABLES
  sent,       \* transfers whose final status the slave has sent
  online,
  expired,    \* transfers whose deadline has passed
  answer      \* of each caller: not asked, awaited, got, failed

vars == <<sent, online, expired, answer>>

Init ==
  /\ sent = {} /\ online = TRUE /\ expired = {}
  /\ answer = [t \in Transfers |-> "no"]

Becomes(t, a) == answer' = [answer EXCEPT ![t] = a]

Ask(t) == answer[t] = "no" /\ Becomes(t, "awaited") /\ UNCHANGED <<sent, online, expired>>

Send(t) == t \notin sent /\ sent' = sent \cup {t} /\ UNCHANGED <<online, expired, answer>>

Expire(t) ==
  /\ answer[t] = "awaited"
  /\ expired' = expired \cup {t}
  /\ UNCHANGED <<sent, online, answer>>

Get(t) ==
  /\ answer[t] = "awaited" /\ t \in sent
  /\ Becomes(t, "got")
  /\ UNCHANGED <<sent, online, expired>>

Fail(t) ==
  /\ answer[t] = "awaited" /\ (~online \/ t \in expired)
  /\ Becomes(t, "failed")
  /\ UNCHANGED <<sent, online, expired>>

GoOffline == online /\ online' = FALSE /\ UNCHANGED <<sent, expired, answer>>

Next == GoOffline \/ \E t \in Transfers : Ask(t) \/ Send(t) \/ Expire(t) \/ Get(t) \/ Fail(t)

Spec == Init /\ [][Next]_vars /\ \A t \in Transfers : WF_vars(Get(t) \/ Fail(t))
=============================================================================

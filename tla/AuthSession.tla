----------------------------- MODULE AuthSession -----------------------------
(***************************************************************************)
(* What the server promises its clients, without handlers, statements,     *)
(* deadlines or counters: a session is asked one question and given one    *)
(* verdict; the key of an account only changes by the one grant of a       *)
(* session that was asked and not refused; a welcome follows the grant,    *)
(* realm lists follow the welcome, and nothing is said once the session is *)
(* over.                                                                   *)
(***************************************************************************)
CONSTANTS Session, Account, OldKey, NoKey

VARIABLES
  stage,      \* what each client was told last about its login
  granted,    \* the account's row has been written for this session
  listed,     \* the client was sent a realm list
  over,       \* the connection is closed
  keys        \* the session key of each account

vars == <<stage, granted, listed, over, keys>>

Init ==
  /\ stage = [s \in Session |-> "none"]
  /\ granted = [s \in Session |-> FALSE]
  /\ listed = [s \in Session |-> FALSE]
  /\ over = [s \in Session |-> FALSE]
  /\ keys \in [Account -> {NoKey, OldKey}]

\* The client is told something about its login.
Tell(s, from, to) ==
  /\ ~over[s] /\ stage[s] \in from
  /\ stage' = [stage EXCEPT ![s] = to]
  /\ UNCHANGED <<granted, listed, over, keys>>

Ask(s) == Tell(s, {"none"}, "asked")
Refuse(s) == ~granted[s] /\ Tell(s, {"none", "asked"}, "refused")
Offer(s) == ~granted[s] /\ Tell(s, {"asked"}, "patch")
Welcome(s) == granted[s] /\ Tell(s, {"asked"}, "welcomed")

\* A logon replaces the account's key, a reconnect keeps it.  The client may
\* have gone meanwhile.
Grant(s) ==
  /\ stage[s] = "asked" /\ ~granted[s]
  /\ granted' = [granted EXCEPT ![s] = TRUE]
  /\ \/ UNCHANGED keys
     \/ \E a \in Account : keys' = [keys EXCEPT ![a] = s]
  /\ UNCHANGED <<stage, listed, over>>

List(s) ==
  /\ ~over[s] /\ stage[s] = "welcomed"
  /\ listed' = [listed EXCEPT ![s] = TRUE]
  /\ UNCHANGED <<stage, granted, over, keys>>

\* Some sessions end; none begins again.
End ==
  /\ over' \in [Session -> BOOLEAN]
  /\ \A s \in Session : over[s] => over'[s]
  /\ UNCHANGED <<stage, granted, listed, keys>>

Next ==
  \/ \E s \in Session :
       \/ Ask(s) \/ Refuse(s) \/ Offer(s) \/ Welcome(s)
       \/ Grant(s) \/ List(s)
  \/ End

Spec == Init /\ [][Next]_vars
=============================================================================

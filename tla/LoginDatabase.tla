--------------------------- MODULE LoginDatabase ---------------------------
(***************************************************************************)
(* The login database as realmd uses it.  The database layer itself is not *)
(* part of this repository; what is modelled is how src/ uses it:          *)
(*                                                                         *)
(*   PQuery          runs at once and returns the rows of that moment;     *)
(*   DirectPExecute  runs at once and reports whether it succeeded;        *)
(*   PExecute        appends the statement to the queue of the delay       *)
(*                   thread, which executes it later (Main.cpp turns this  *)
(*                   on with AllowAsyncTransactions and ends the thread    *)
(*                   with HaltDelayThread; StartDB counts "1 + 1"          *)
(*                   connections).                                         *)
(*                                                                         *)
(* A session key is named after the session that computed it: a session    *)
(* runs at most one SRP6 exchange.  OldKey is the key an earlier run of    *)
(* realmd left in the table and NoKey the empty column.                    *)
(***************************************************************************)
EXTENDS Naturals, Sequences

CONSTANTS
  Account,        \* the account names clients claim
  Ip,             \* peer addresses
  Session,        \* the connections of the run
  OldKey, NoKey,
  BanPermanent    \* WrongPass.BanTime = 0

ASSUME KeyAssumption ==
  /\ OldKey \notin Session
  /\ NoKey \notin Session \cup {OldKey}

ASSUME BanTimeAssumption == BanPermanent \in BOOLEAN

VARIABLES
  rows,           \* the accounts that have a row in `account`
  sessionkey,     \* `account`.`sessionkey`
  lastIp,         \* `account`.`last_ip`
  failedLogins,   \* `account`.`failed_logins`
  hasVS,          \* `account`.`v` and `s` both have their full width
  accountBanned,  \* kinds of active rows of `account_banned`, per account
  ipBanned,       \* kinds of active rows of `ip_banned`, per address
  delayQueue,     \* statements the delay thread has not executed yet
  published       \* history: the sessions whose checked UPDATE of an account
                  \* reached its row, and OldKey where it was there before

accountVars == <<rows, sessionkey, lastIp, published>>
delayedVars == <<failedLogins, hasVS, accountBanned, ipBanned>>
dbVars == <<rows, sessionkey, lastIp, published, failedLogins, hasVS,
            accountBanned, ipBanned, delayQueue>>

Key == Session \cup {OldKey}

\* An INSERT with BanTime 0 writes `unbandate` = `bandate`, which every query
\* reads as permanent.
BanKind == {"temporary", "permanent"}
AutobanKind == IF BanPermanent THEN "permanent" ELSE "temporary"

Statement ==
  [op : {"inc_failed_logins", "ban_account", "set_vs"}, of : Account]
    \cup [op : {"ban_ip"}, of : Ip]

AccountTypeOK ==
  /\ rows \subseteq Account
  /\ sessionkey \in [Account -> Key \cup {NoKey}]
  /\ lastIp \in [Account -> Ip]
  /\ published \in [Account -> SUBSET Key]

DelayedTypeOK ==
  /\ failedLogins \in [Account -> Nat]
  /\ hasVS \in [Account -> BOOLEAN]
  /\ accountBanned \in [Account -> SUBSET BanKind]
  /\ ipBanned \in [Ip -> SUBSET BanKind]

QueueTypeOK == delayQueue \in Seq(Statement)

DatabaseTypeOK == AccountTypeOK /\ DelayedTypeOK /\ QueueTypeOK

\* Whatever an earlier run and the administrators left behind.
DatabaseInit ==
  /\ rows \in SUBSET Account
  /\ sessionkey \in [Account -> {NoKey, OldKey}]
  /\ lastIp \in [Account -> Ip]
  /\ failedLogins = [a \in Account |-> 0]
  /\ hasVS \in [Account -> BOOLEAN]
  /\ accountBanned \in [Account -> SUBSET BanKind]
  /\ ipBanned \in [Ip -> SUBSET BanKind]
  /\ delayQueue = <<>>
  /\ published = [a \in Account |-> {sessionkey[a]} \ {NoKey}]

-----------------------------------------------------------------------------
(* Statements.                                                             *)

PExecute(op, of) ==
  delayQueue' = Append(delayQueue, [op |-> op, of |-> of])

\* The checked UPDATE of a logon.  An UPDATE that matches no row succeeds.
PublishLogon(a, s, ip) ==
  IF a \in rows
  THEN /\ sessionkey' = [sessionkey EXCEPT ![a] = s]
       /\ lastIp' = [lastIp EXCEPT ![a] = ip]
       /\ failedLogins' = [failedLogins EXCEPT ![a] = 0]
       /\ published' = [published EXCEPT ![a] = @ \cup {s}]
  ELSE UNCHANGED <<sessionkey, lastIp, failedLogins, published>>

\* The checked UPDATE of a reconnect: `client_locale` and `os` only.
PublishReconnect(a, s) ==
  IF a \in rows
  THEN published' = [published EXCEPT ![a] = @ \cup {s}]
  ELSE UNCHANGED published

-----------------------------------------------------------------------------
(* Steps of the database that no session takes.                            *)

\* The delay thread executes the oldest statement.
DelayThread ==
  /\ delayQueue # <<>>
  /\ delayQueue' = Tail(delayQueue)
  /\ LET stmt == Head(delayQueue) IN
       \/ /\ stmt.op = "inc_failed_logins"
          /\ failedLogins' = [failedLogins EXCEPT ![stmt.of] =
                                IF stmt.of \in rows THEN @ + 1 ELSE @]
          /\ UNCHANGED <<hasVS, accountBanned, ipBanned>>
       \/ /\ stmt.op = "ban_account"
          /\ accountBanned' = [accountBanned EXCEPT ![stmt.of] =
                                 @ \cup {AutobanKind}]
          /\ UNCHANGED <<failedLogins, hasVS, ipBanned>>
       \/ /\ stmt.op = "ban_ip"
          /\ ipBanned' = [ipBanned EXCEPT ![stmt.of] = @ \cup {AutobanKind}]
          /\ UNCHANGED <<failedLogins, hasVS, accountBanned>>
       \/ /\ stmt.op = "set_vs"
          /\ \E full \in BOOLEAN :
               hasVS' = [hasVS EXCEPT ![stmt.of] =
                           IF stmt.of \in rows THEN full ELSE @]
          /\ UNCHANGED <<failedLogins, accountBanned, ipBanned>>
  /\ UNCHANGED accountVars

\* An account is deleted by a tool that shares the database.
DeleteAccount(a) ==
  /\ a \in rows
  /\ rows' = rows \ {a}
  /\ UNCHANGED <<sessionkey, lastIp, published, delayQueue>>
  /\ UNCHANGED delayedVars

\* `unbandate` passes.
AccountBanEnds(a) ==
  /\ "temporary" \in accountBanned[a]
  /\ accountBanned' = [accountBanned EXCEPT ![a] = @ \ {"temporary"}]
  /\ UNCHANGED <<failedLogins, hasVS, ipBanned, delayQueue>>
  /\ UNCHANGED accountVars

IpBanEnds(ip) ==
  /\ "temporary" \in ipBanned[ip]
  /\ ipBanned' = [ipBanned EXCEPT ![ip] = @ \ {"temporary"}]
  /\ UNCHANGED <<failedLogins, hasVS, accountBanned, delayQueue>>
  /\ UNCHANGED accountVars
=============================================================================

----------------------------- MODULE AuthServer -----------------------------
(***************************************************************************)
(* The sessions together with the server that owns them (Auth/AuthServer): *)
(* network threads create and drive sessions, the main thread sweeps the   *)
(* registry of weak pointers every 100 ms and closes those whose           *)
(* authentication deadline has passed, and the delay thread executes       *)
(* queued statements.                                                      *)
(*                                                                         *)
(* A sweep takes its references under the registry's mutex, then reads the *)
(* clock once, then asks each session in turn.  The question               *)
(* (Deadline::expired) and the close that follows it are two steps,        *)
(* between which the session's network thread may run.                     *)
(***************************************************************************)
EXTENDS AuthSocket, FiniteSets

CONSTANTS
  AuthTimeout,    \* AuthSessionTimeout in clock units; 0 disables it
  MaxClock        \* bound: the clock stops here

ASSUME TimeAssumption == AuthTimeout \in Nat /\ MaxClock \in Nat

VARIABLES
  clock,
  registry,       \* sessions with an entry in Impl::sockets
  sweep,          \* position of the main thread
  refs,           \* sessions the sweep holds a shared_ptr to
  todo,           \* those it has not asked yet
  closing,        \* the one that answered yes
  now,            \* the clock the sweep read
  inTime          \* history: sessions disarmed before their deadline

serverVars == <<clock, registry, sweep, refs, todo, closing, now>>
vars == <<dbVars, socketVars, serverVars, inTime>>

TypeOK ==
  /\ DatabaseTypeOK
  /\ SocketTypeOK
  /\ clock \in 0 .. MaxClock
  /\ registry \subseteq Session
  /\ sweep \in {"sleeping", "holding", "asking", "stopped"}
  /\ refs \subseteq Session
  /\ todo \subseteq refs
  /\ closing \subseteq refs
  /\ now \in 0 .. MaxClock
  /\ inTime \subseteq Session

Init ==
  /\ DatabaseInit
  /\ SocketInit
  /\ clock = 0
  /\ registry = {}
  /\ sweep = "sleeping"
  /\ refs = {}
  /\ todo = {}
  /\ closing = {}
  /\ now = 0
  /\ inTime = {}

-----------------------------------------------------------------------------

Tick ==
  /\ clock < MaxClock
  /\ clock' = clock + 1
  /\ UNCHANGED <<registry, sweep, refs, todo, closing, now, inTime>>
  /\ UNCHANGED <<dbVars, socketVars>>

\* The session factory.  No session is accepted whose deadline the bounded
\* clock would not reach.
Accept(s) ==
  /\ sweep # "stopped"
  /\ clock + AuthTimeout <= MaxClock
  /\ Construct(s, clock, AuthTimeout)
  /\ registry' = registry \cup {s}
  /\ UNCHANGED <<clock, sweep, refs, todo, closing, now, inTime>>

\* A step of the session's network thread.
NetworkStep(s) ==
  /\ Handle(s) \/ Continue(s)
  /\ inTime' = IF pc[s] \in {"disarm", "patch_disarm"} /\ clock < deadline[s]
               THEN inTime \cup {s} ELSE inTime
  /\ UNCHANGED serverVars

TransportStep(s) ==
  /\ OnClose(s) \/ PatchReadError(s)
  /\ UNCHANGED <<serverVars, inTime>>

\* The last reference goes: the transport has dropped its own and no sweep
\* holds one.
Release(s) ==
  /\ s \notin refs
  /\ Destruct(s)
  /\ UNCHANGED <<serverVars, inTime>>

\* The entries whose weak_ptr can be locked.
Lockable == {s \in registry : life[s] = "alive" /\ held[s]}

\* Mutations of EntriesKept: every entry is erased, and none is.
EraseEveryEntry == {}
EraseNoEntry == registry

EntriesKept == Lockable

\* AuthServer::Update, under the mutex: entries that cannot be locked are
\* erased, the others are held.
SweepBegin ==
  /\ sweep = "sleeping"
  /\ registry' = EntriesKept
  /\ refs' = Lockable
  /\ todo' = Lockable
  /\ sweep' = "holding"
  /\ UNCHANGED <<clock, closing, now, inTime>>
  /\ UNCHANGED <<dbVars, socketVars>>

\* After the mutex: the clock all sessions are asked with.
SweepClock ==
  /\ sweep = "holding"
  /\ now' = clock
  /\ sweep' = "asking"
  /\ UNCHANGED <<clock, registry, refs, todo, closing, inTime>>
  /\ UNCHANGED <<dbVars, socketVars>>

\* Mutation of Expired: a disarmed deadline still counts.
ExpiredWhenDisarmed(s) == AuthTimeout > 0 /\ now >= deadline[s]

\* Deadline::expired.
Expired(s) == active[s] /\ now >= deadline[s]

\* ExpireAuthentication asks the session's deadline ...
SweepAsk(s) ==
  /\ sweep = "asking" /\ closing = {} /\ s \in todo
  /\ todo' = todo \ {s}
  /\ closing' = IF Expired(s) THEN {s} ELSE {}
  /\ UNCHANGED <<clock, registry, sweep, refs, now, inTime>>
  /\ UNCHANGED <<dbVars, socketVars>>

\* ... and closes the session that answered yes.
SweepClose(s) ==
  /\ s \in closing
  /\ closing' = {}
  /\ CloseConnection(s, "deadline")
  /\ UNCHANGED <<pc, status, sent, authed>>
  /\ UNCHANGED <<claimVars, patchVars, lifeVars, dbVars>>
  /\ UNCHANGED <<clock, registry, sweep, refs, todo, now, inTime>>

SweepEnd ==
  /\ sweep = "asking" /\ todo = {} /\ closing = {}
  /\ sweep' = "sleeping"
  /\ refs' = {}
  /\ now' = 0
  /\ UNCHANGED <<clock, registry, todo, closing, inTime>>
  /\ UNCHANGED <<dbVars, socketVars>>

\* AuthServer::Stop: the engine ends its connections and joins its workers,
\* which are then between two frames, and the registry is cleared.
Stop ==
  /\ sweep = "sleeping"
  /\ \A s \in Session : pc[s] = "idle"
  /\ sweep' = "stopped"
  /\ registry' = {}
  /\ held' = [s \in Session |-> FALSE]
  /\ active' = [s \in Session |-> FALSE]
  /\ closed' = [s \in Session |-> closed[s] \/ held[s]]
  /\ closeCause' = [s \in Session |->
                      IF held[s] /\ ~closed[s] THEN "transport"
                                               ELSE closeCause[s]]
  /\ UNCHANGED <<closeAsked, pc, status, sent, authed, life, deadline,
                 connections>>
  /\ UNCHANGED <<claimVars, patchVars, dbVars>>
  /\ UNCHANGED <<clock, refs, todo, closing, now, inTime>>

\* The database changes without any session.
DatabaseStep ==
  /\ \/ DelayThread
     \/ \E a \in Account : DeleteAccount(a) \/ AccountBanEnds(a)
     \/ \E ip \in Ip : IpBanEnds(ip)
  /\ UNCHANGED <<socketVars, serverVars, inTime>>

Sweep ==
  \/ SweepBegin
  \/ SweepClock
  \/ \E s \in Session : SweepAsk(s) \/ SweepClose(s)
  \/ SweepEnd

Next ==
  \/ \E s \in Session :
       Accept(s) \/ NetworkStep(s) \/ TransportStep(s) \/ Release(s)
  \/ Sweep
  \/ Stop
  \/ Tick
  \/ DatabaseStep

Spec == Init /\ [][Next]_vars

\* Fairness.  The main loop sweeps for ever, time passes, a handler that has
\* begun returns (its database calls do), the transport honours a close it was
\* asked for, a destructor runs once the last reference is gone.  Nothing is
\* assumed of clients.
Fairness ==
  /\ WF_vars(Sweep)
  /\ WF_vars(Tick)
  /\ \A s \in Session :
       /\ WF_vars(NetworkStep(s) /\ pc[s] # "idle")
       /\ WF_vars(TransportStep(s) /\ closeAsked[s])
       /\ WF_vars(Release(s))

FairSpec == Spec /\ Fairness

-----------------------------------------------------------------------------
(* Safety.                                                                 *)

\* A client that was told its logon or reconnect succeeded finds what it was
\* promised in the database: the checked UPDATE of its account came first
\* (AuthSocket.cpp 892 before 922, 1105 before 1127), unless the account was
\* deleted meanwhile, when the UPDATE succeeds on no row.
SuccessIsPublished ==
  \A s \in Session :
    sent[s] \cap {"PROOF", "RECONNECT_PROOF"} # {} =>
      s \in published[login[s]] \/ login[s] \notin rows

\* The key an authenticated session works with was issued to its account by
\* some logon, even when another logon has replaced it since: a reconnect
\* checks its proof against the key it read at its challenge
\* (AuthSocket.cpp 1043 and 1096).
AuthedKeyWasIssued ==
  \A s \in Session : status[s] = "AUTHED" =>
    \/ key[s] \in published[login[s]]
    \/ login[s] \notin rows

\* No session key is replaced behind its client's back: once the handler that
\* published a key has returned on an open session, the client has the proof
\* (AuthSocket.cpp 892-927).
PublishedKeyIsProven ==
  \A a \in Account, s \in Session :
    sessionkey[a] = s /\ pc[s] = "idle" /\ ~closed[s] =>
      "PROOF" \in sent[s] /\ status[s] = "AUTHED"

\* An account locked to an address keeps it: the address a logon writes to
\* `last_ip` (AuthSocket.cpp 892) is the one the challenge compared with
\* (AuthSocket.cpp 643), whatever logons ran in between.
LockedAddressKept ==
  [][\A a \in Locked : lastIp'[a] = lastIp[a]]_vars

\* s_authed counts the live sessions in STATUS_AUTHED, as AuthSocket.h 241
\* says, but for those whose handler has not counted them yet; s_connections
\* counts the live sessions.  Destruction may come from either thread and at
\* any point after the session was closed.
CountersExact ==
  /\ connections = Cardinality({s \in Session : life[s] = "alive"})
  /\ authed = Cardinality({s \in Session : /\ life[s] = "alive"
                                           /\ status[s] = "AUTHED"
                                           /\ pc[s] = "idle"})

\* A session that waits for the client's answer to a patch offer still has the
\* archive it advertised; once the archive went to a patch thread the session
\* can neither start another transfer nor authenticate (AuthSocket.cpp
\* 1421-1450), and only a build the policy patches gets that far.
OnePatchTransfer ==
  \A s \in Session :
    /\ status[s] = "PATCH" /\ life[s] = "alive" => artifact[s]
    /\ artifact[s] => status[s] = "PATCH"
    /\ streaming[s] => ~artifact[s] /\ status[s] = "CLOSED"
    /\ streaming[s] => ShouldPatch(PatchEnabled, ForcedBuilds, build[s])

\* A session that was authenticated or offered a patch, and disarmed, before
\* its deadline is never closed by the deadline, however the sweep and the
\* handler interleave (AuthSocket.cpp 292-304 and 925-926).
InTimeIsExempt ==
  \A s \in inTime : closeCause[s] # "deadline" /\ s \notin closing

\* The sessions that answered a challenge for this account with a wrong
\* password.
WrongPasswords(a) ==
  {s \in Session : login[s] = a /\ "WRONG_PASSWORD" \in sent[s]}

\* Nobody is banned early: a ban is only issued for an account that has seen
\* WrongPass.MaxCount wrong passwords, and an address ban only for an address
\* one of them came from, although the counter is read while increments of
\* several sessions are still queued (AuthSocket.cpp 948-976).
NoEarlyBan ==
  \A i \in DOMAIN delayQueue :
    LET stmt == delayQueue[i] IN
      /\ stmt.op = "ban_account" =>
           Cardinality(WrongPasswords(stmt.of)) >= MaxWrongPassCount
      /\ stmt.op = "ban_ip" =>
           \E a \in Account :
             /\ Cardinality(WrongPasswords(a)) >= MaxWrongPassCount
             /\ \E s \in WrongPasswords(a) : AddressOf[s] = stmt.of

-----------------------------------------------------------------------------
(* Liveness.                                                               *)

\* A connection is never left open unauthenticated: with a timeout configured
\* it is closed, authenticated or offered a patch in the end, also when its
\* session sits in STATUS_CLOSED after a refusal (AuthSocket.cpp 568 and 783).
UnauthenticatedEnds ==
  \A s \in Session :
    life[s] = "alive" /\ AuthTimeout > 0 ~>
      closed[s] \/ status[s] \in {"AUTHED", "PATCH"} \/ streaming[s]

\* A closed session is destroyed and its registry entry erased, also when a
\* sweep held it while it was closed (AuthServer.cpp 86-112).
ClosedIsForgotten ==
  \A s \in Session :
    closed[s] ~> life[s] = "destroyed" /\ s \notin registry

-----------------------------------------------------------------------------
(* What the documentation says and the code does not do.                   *)

\* "Authenticated sessions and patch transfers are exempt." from the timeout
\* (realmd.conf.dist.in 40): the deadline never closes a session whose
\* handler has authenticated it, offered it a patch or started the transfer,
\* and has returned.
ExemptFromTimeout ==
  [][\A s \in Session :
       /\ status[s] \in {"AUTHED", "PATCH"} \/ streaming[s]
       /\ pc[s] = "idle"
       => ~(closeCause[s] # "deadline" /\ closeCause'[s] = "deadline")]_vars

\* Every handler has returned and every statement is executed.
Quiescent == delayQueue = <<>> /\ \A s \in Session : pc[s] = "idle"

\* "Increment number of failed logins by one and if it reaches the limit
\* temporarily ban that account or IP" (AuthSocket.cpp 947): when nothing
\* is pending, an account at the limit is banned, or the address of one of its
\* wrong passwords is.
BannedAtLimit ==
  Quiescent /\ MaxWrongPassCount > 0 =>
     \A a \in rows : failedLogins[a] >= MaxWrongPassCount =>
       IF BanAccount THEN accountBanned[a] # {}
       ELSE \E s \in WrongPasswords(a) : ipBanned[AddressOf[s]] # {}
=============================================================================

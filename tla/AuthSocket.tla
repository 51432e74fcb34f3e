----------------------------- MODULE AuthSocket -----------------------------
(***************************************************************************)
(* One authentication session per connection: the SRP6 logon, the          *)
(* reconnect, the realm list request and the patch offer (Auth/AuthSocket).*)
(*                                                                         *)
(* A session is driven by three threads.  The network thread delivers      *)
(* frames one at a time and runs the handler of each to its end; pc[s] is  *)
(* its position, "idle" between frames.  A handler is cut into steps where *)
(* another thread can see or change what it works on: at every query and   *)
(* checked UPDATE, at the proof it sends, at every change of the deadline. *)
(* A step runs from one such point to the next, so the refusal or the      *)
(* queued statement that follows a query belongs to the query's step.  The *)
(* housekeeping thread (module AuthServer) may close the connection        *)
(* between any two steps.  A detached patch thread may ask the transport   *)
(* to close.                                                               *)
(*                                                                         *)
(* Frames are what InspectFrame lets through: whatever it refuses, in any  *)
(* state, is RejectInput.  The SRP6 arithmetic is abstracted to its        *)
(* outcome: the client's proof matches or does not.                        *)
(***************************************************************************)
EXTENDS LoginDatabase, ClientBuildPolicy, Integers

CONSTANTS
  AddressOf,          \* remote_address_ of each session
  Locked,             \* accounts whose `locked` column is 1
  GmLevel,            \* `gmlevel` of each account
  Build,              \* the builds clients claim
  PatchEnabled,       \* Patch.Enable
  ForcedBuilds,       \* Patch.ForceBuilds
  MaxWrongPassCount,  \* WrongPass.MaxCount
  BanAccount          \* WrongPass.BanType

ASSUME SessionAssumption ==
  /\ AddressOf \in [Session -> Ip]
  /\ Locked \subseteq Account
  /\ GmLevel \in [Account -> Nat]
  /\ Build \subseteq Nat
  /\ MaxWrongPassCount \in Nat
  /\ BanAccount \in BOOLEAN
  /\ PatchEnabled \in BOOLEAN

VARIABLES
  life,           \* not yet constructed, alive or destructed
  held,           \* the transport holds its shared_ptr to the session
  pc,             \* position of the network thread in the session's handler
  status,         \* _status
  closed,         \* m_closed
  closeCause,     \* history: what set m_closed first
  closeAsked,     \* m_closer has been called
  active,         \* m_authDeadline is active
  deadline,       \* m_authDeadline's time point
  login,          \* _login, NoLogin before a challenge
  build,          \* _build
  secLevel,       \* _accountSecurityLevel
  key,            \* K
  rowHasVS,       \* `v` and `s` of the row the challenge handler holds
  artifact,       \* m_patchArtifact is set
  streaming,      \* a patch thread has been started
  sent,           \* history: the replies handed to the transport
  connections,    \* s_connections
  authed          \* s_authed

CONSTANT NoLogin
ASSUME NoLoginAssumption == NoLogin \notin Account

closeVars == <<closed, closeCause, closeAsked, active>>
claimVars == <<login, build, secLevel, key, rowHasVS>>
patchVars == <<artifact, streaming>>
lifeVars == <<life, held, deadline, connections>>
socketVars == <<life, held, deadline, connections, authed, pc, status, sent,
                closed, closeCause, closeAsked, active,
                login, build, secLevel, key, rowHasVS, artifact, streaming>>

Status == {"CHALLENGE", "LOGON_PROOF", "RECON_PROOF", "PATCH", "AUTHED",
           "CLOSED"}

Position == {"idle", "ip_ban", "account", "account_ban", "publish", "prove",
             "failed_inc", "failed_read", "session_key", "re_publish",
             "re_prove", "disarm", "count", "patch_disarm"}

Reply == {"FAIL_BANNED", "FAIL_SUSPENDED", "FAIL_UNKNOWN_ACCOUNT",
          "FAIL_DB_BUSY", "FAIL_LOCKED_ENFORCED", "CHALLENGE",
          "WRONG_PASSWORD", "VERSION_INVALID", "VERSION_UPDATE", "PROOF",
          "RECONNECT_CHALLENGE", "RECONNECT_PROOF", "REALM_LIST"}

Cause == {"none", "transport", "deadline", "rejected", "handler", "cancel"}

SEC_PLAYER == 0
SEC_ADMINISTRATOR == 3

LifeTypeOK ==
  /\ life \in [Session -> {"new", "alive", "destroyed"}]
  /\ held \in [Session -> BOOLEAN]
  /\ deadline \in [Session -> Nat]
  /\ connections \in Int

CloseTypeOK ==
  /\ closed \in [Session -> BOOLEAN]
  /\ closeCause \in [Session -> Cause]
  /\ closeAsked \in [Session -> BOOLEAN]
  /\ active \in [Session -> BOOLEAN]

ClaimTypeOK ==
  /\ login \in [Session -> Account \cup {NoLogin}]
  /\ build \in [Session -> Build \cup {0}]
  /\ secLevel \in [Session -> SEC_PLAYER .. SEC_ADMINISTRATOR]
  /\ key \in [Session -> Key \cup {NoKey}]
  /\ rowHasVS \in [Session -> BOOLEAN]

PatchTypeOK ==
  /\ artifact \in [Session -> BOOLEAN]
  /\ streaming \in [Session -> BOOLEAN]

HandlerTypeOK ==
  /\ pc \in [Session -> Position]
  /\ status \in [Session -> Status]
  /\ sent \in [Session -> SUBSET Reply]
  /\ authed \in Int

SocketTypeOK ==
  LifeTypeOK /\ CloseTypeOK /\ ClaimTypeOK /\ PatchTypeOK /\ HandlerTypeOK

SocketInit ==
  /\ life = [s \in Session |-> "new"]
  /\ held = [s \in Session |-> FALSE]
  /\ pc = [s \in Session |-> "idle"]
  /\ status = [s \in Session |-> "CHALLENGE"]
  /\ closed = [s \in Session |-> FALSE]
  /\ closeCause = [s \in Session |-> "none"]
  /\ closeAsked = [s \in Session |-> FALSE]
  /\ active = [s \in Session |-> FALSE]
  /\ deadline = [s \in Session |-> 0]
  /\ login = [s \in Session |-> NoLogin]
  /\ build = [s \in Session |-> 0]
  /\ secLevel = [s \in Session |-> SEC_PLAYER]
  /\ key = [s \in Session |-> NoKey]
  /\ rowHasVS = [s \in Session |-> FALSE]
  /\ artifact = [s \in Session |-> FALSE]
  /\ streaming = [s \in Session |-> FALSE]
  /\ sent = [s \in Session |-> {}]
  /\ connections = 0
  /\ authed = 0

-----------------------------------------------------------------------------
(* The calls handlers are made of.                                         *)

GoTo(s, position) == pc' = [pc EXCEPT ![s] = position]
SetStatus(s, st) == status' = [status EXCEPT ![s] = st]

\* Mutation of Send: m_closed is not looked at.
SendAnyway(s, reply) == sent' = [sent EXCEPT ![s] = @ \cup {reply}]

\* AuthSocket::send: nothing leaves a closed session.
Send(s, reply) ==
  sent' = [sent EXCEPT ![s] = IF closed[s] THEN @ ELSE @ \cup {reply}]

\* AuthSocket::close_connection: the exchange on m_closed lets one caller ask
\* the transport.
CloseConnection(s, cause) ==
  /\ active' = [active EXCEPT ![s] = FALSE]
  /\ closed' = [closed EXCEPT ![s] = TRUE]
  /\ closeCause' = [closeCause EXCEPT ![s] = IF closed[s] THEN @ ELSE cause]
  /\ closeAsked' = [closeAsked EXCEPT ![s] = @ \/ ~closed[s]]

\* The handler returned false, so onData drops the input and closes.
Fail(s) == CloseConnection(s, "handler") /\ GoTo(s, "idle")

\* onData is about to hand a frame of a session in state st to its handler.
Dispatch(s, st) ==
  /\ life[s] = "alive" /\ held[s]
  /\ pc[s] = "idle"
  /\ ~closed[s]
  /\ status[s] = st

\* The network thread is at this point of the session's handler.
At(s, position) == pc[s] = position

-----------------------------------------------------------------------------
(* _HandleLogonChallenge.                                                  *)

\* The frame is read, the session is closed unless overridden, and the claim
\* is kept.  A claim whose os field is not terminated fails the handler.
HandleLogonChallenge(s, a, b) ==
  /\ Dispatch(s, "CHALLENGE")
  /\ SetStatus(s, "CLOSED")
  /\ login' = [login EXCEPT ![s] = a]
  /\ build' = [build EXCEPT ![s] = b]
  /\ \/ GoTo(s, "ip_ban") /\ UNCHANGED closeVars
     \/ Fail(s)
  /\ UNCHANGED <<secLevel, key, rowHasVS, sent, authed>>
  /\ UNCHANGED <<patchVars, lifeVars, dbVars>>

\* A refusal is a reply: the session stays open, in STATUS_CLOSED.
Refuse(s, reply) == Send(s, reply) /\ GoTo(s, "idle")

\* SELECT from `ip_banned`.
ChallengeIpBan(s) ==
  /\ At(s, "ip_ban")
  /\ \/ ipBanned[AddressOf[s]] # {} /\ Refuse(s, "FAIL_BANNED")
     \/ ipBanned[AddressOf[s]] = {} /\ GoTo(s, "account") /\ UNCHANGED sent
  /\ UNCHANGED <<status, authed>>
  /\ UNCHANGED <<closeVars, claimVars, patchVars, lifeVars, dbVars>>

\* Mutation of LockedOut: the addresses are not compared.
NeverLockedOut(s) == FALSE

\* The account is locked to the address it was last used from, and this
\* session comes from another.
LockedOut(s) == login[s] \in Locked /\ lastIp[login[s]] # AddressOf[s]

\* SELECT from `account`, and the check of a locked account.
ChallengeAccount(s) ==
  /\ At(s, "account")
  /\ \/ /\ login[s] \notin rows
        /\ Refuse(s, "FAIL_UNKNOWN_ACCOUNT")
        /\ UNCHANGED rowHasVS
     \/ /\ login[s] \in rows /\ LockedOut(s)
        /\ Refuse(s, LockedAccountResultForBuild(build[s]))
        /\ UNCHANGED rowHasVS
     \/ /\ login[s] \in rows /\ ~LockedOut(s)
        /\ rowHasVS' = [rowHasVS EXCEPT ![s] = hasVS[login[s]]]
        /\ GoTo(s, "account_ban")
        /\ UNCHANGED sent
  /\ UNCHANGED <<status, login, build, secLevel, key, authed>>
  /\ UNCHANGED <<closeVars, patchVars, lifeVars, dbVars>>

\* Mutation of SecurityLevel: the column is taken as it is.
UnclampedSecurityLevel(a) == GmLevel[a]

SecurityLevel(a) ==
  IF GmLevel[a] <= SEC_ADMINISTRATOR THEN GmLevel[a] ELSE SEC_ADMINISTRATOR

\* SELECT from `account_banned`; without a ban the SRP6 challenge is made from
\* the row read before, _SetVSFields storing a new (v, s) where it had none.
ChallengeAccountBan(s) ==
  /\ At(s, "account_ban")
  /\ rowHasVS' = [rowHasVS EXCEPT ![s] = FALSE]
  /\ \/ /\ \E kind \in accountBanned[login[s]] :
             Refuse(s, IF kind = "permanent" THEN "FAIL_BANNED"
                                             ELSE "FAIL_SUSPENDED")
        /\ UNCHANGED <<status, secLevel, delayQueue>>
     \/ /\ accountBanned[login[s]] = {}
        /\ IF rowHasVS[s] THEN UNCHANGED delayQueue
                          ELSE PExecute("set_vs", login[s])
        /\ secLevel' = [secLevel EXCEPT ![s] = SecurityLevel(login[s])]
        /\ SetStatus(s, "LOGON_PROOF")
        /\ Send(s, "CHALLENGE")
        /\ GoTo(s, "idle")
  /\ UNCHANGED <<login, build, key, authed>>
  /\ UNCHANGED <<closeVars, patchVars, lifeVars, accountVars, delayedVars>>

-----------------------------------------------------------------------------
(* _HandleLogonProof.                                                      *)

\* A % N = 0.
HandleLogonProofZeroA(s) ==
  /\ Dispatch(s, "LOGON_PROOF")
  /\ SetStatus(s, "CLOSED")
  /\ Fail(s)
  /\ UNCHANGED <<sent, authed>>
  /\ UNCHANGED <<claimVars, patchVars, lifeVars, dbVars>>

\* OfferPatch: with no archive for this build and locale the version is
\* refused; otherwise the archive is opened and kept, and offered
\* (VERSION_UPDATE and XFER_INITIATE are one reply here).
OfferPatch(s) ==
  \/ /\ Refuse(s, "VERSION_INVALID")
     /\ SetStatus(s, "CLOSED")
     /\ UNCHANGED artifact
  \/ /\ artifact' = [artifact EXCEPT ![s] = TRUE]
     /\ Send(s, "VERSION_UPDATE")
     /\ SetStatus(s, "PATCH")
     /\ GoTo(s, "patch_disarm")

\* The proof matches the password.
HandleLogonProofMatch(s) ==
  /\ Dispatch(s, "LOGON_PROOF")
  /\ key' = [key EXCEPT ![s] = s]
  /\ \/ /\ ShouldPatch(PatchEnabled, ForcedBuilds, build[s])
        /\ OfferPatch(s)
     \/ /\ ~ShouldPatch(PatchEnabled, ForcedBuilds, build[s])
        /\ ~Supported(build[s])
        /\ Refuse(s, "VERSION_INVALID")
        /\ SetStatus(s, "CLOSED")
        /\ UNCHANGED artifact
     \/ /\ ~ShouldPatch(PatchEnabled, ForcedBuilds, build[s])
        /\ Supported(build[s])
        /\ SetStatus(s, "CLOSED")
        /\ GoTo(s, "publish")
        /\ UNCHANGED <<sent, artifact>>
  /\ UNCHANGED <<login, build, secLevel, rowHasVS, streaming, authed>>
  /\ UNCHANGED <<closeVars, lifeVars, dbVars>>

\* The checked UPDATE of sessionkey, last_ip, locale, os and failed_logins.
LogonPublish(s) ==
  /\ At(s, "publish")
  /\ \/ /\ PublishLogon(login[s], key[s], AddressOf[s])
        /\ GoTo(s, "prove")
        /\ UNCHANGED closeVars
     \/ /\ Fail(s)
        /\ UNCHANGED <<sessionkey, lastIp, failedLogins, published>>
  /\ UNCHANGED <<status, sent, authed, rows, hasVS, accountBanned, ipBanned,
                 delayQueue>>
  /\ UNCHANGED <<claimVars, patchVars, lifeVars>>

\* Mutation of LogonProve: the session is authenticated without a reply.
LogonProveSilently(s) ==
  /\ At(s, "prove")
  /\ SetStatus(s, "AUTHED")
  /\ GoTo(s, "disarm")
  /\ UNCHANGED <<sent, authed>>
  /\ UNCHANGED <<closeVars, claimVars, patchVars, lifeVars, dbVars>>

\* SendProof, and the session is authenticated.
LogonProve(s) ==
  /\ At(s, "prove")
  /\ Send(s, "PROOF")
  /\ SetStatus(s, "AUTHED")
  /\ GoTo(s, "disarm")
  /\ UNCHANGED authed
  /\ UNCHANGED <<closeVars, claimVars, patchVars, lifeVars, dbVars>>

\* Mutation of HandleLogonProofMismatch: the session may try again.
HandleLogonProofRetry(s) ==
  /\ Dispatch(s, "LOGON_PROOF")
  /\ key' = [key EXCEPT ![s] = s]
  /\ Send(s, "WRONG_PASSWORD")
  /\ GoTo(s, IF MaxWrongPassCount > 0 THEN "failed_inc" ELSE "idle")
  /\ UNCHANGED <<status, login, build, secLevel, rowHasVS, authed>>
  /\ UNCHANGED <<closeVars, patchVars, lifeVars, dbVars>>

\* The proof does not match.
HandleLogonProofMismatch(s) ==
  /\ Dispatch(s, "LOGON_PROOF")
  /\ SetStatus(s, "CLOSED")
  /\ key' = [key EXCEPT ![s] = s]
  /\ Send(s, "WRONG_PASSWORD")
  /\ GoTo(s, IF MaxWrongPassCount > 0 THEN "failed_inc" ELSE "idle")
  /\ UNCHANGED <<login, build, secLevel, rowHasVS, authed>>
  /\ UNCHANGED <<closeVars, patchVars, lifeVars, dbVars>>

\* UPDATE failed_logins + 1, queued for the delay thread.
FailedLoginIncrement(s) ==
  /\ At(s, "failed_inc")
  /\ PExecute("inc_failed_logins", login[s])
  /\ GoTo(s, "failed_read")
  /\ UNCHANGED <<status, sent, authed>>
  /\ UNCHANGED <<closeVars, claimVars, patchVars, lifeVars, accountVars,
                 delayedVars>>

\* Mutation of LimitReached: the increment just queued is added to what the
\* table says.
LimitReachedWithOwn(s) ==
  login[s] \in rows /\ failedLogins[login[s]] + 1 >= MaxWrongPassCount

\* The account of the session has failed often enough.
LimitReached(s) ==
  login[s] \in rows /\ failedLogins[login[s]] >= MaxWrongPassCount

\* SELECT failed_logins, and the ban it leads to.
FailedLoginCheck(s) ==
  /\ At(s, "failed_read")
  /\ \/ ~LimitReached(s) /\ UNCHANGED delayQueue
     \/ LimitReached(s) /\ BanAccount /\ PExecute("ban_account", login[s])
     \/ LimitReached(s) /\ ~BanAccount /\ PExecute("ban_ip", AddressOf[s])
  /\ GoTo(s, "idle")
  /\ UNCHANGED <<status, sent, authed>>
  /\ UNCHANGED <<closeVars, claimVars, patchVars, lifeVars, accountVars,
                 delayedVars>>

-----------------------------------------------------------------------------
(* _HandleReconnectChallenge and _HandleReconnectProof.                    *)

HandleReconnectChallenge(s, a, b) ==
  /\ Dispatch(s, "CHALLENGE")
  /\ SetStatus(s, "CLOSED")
  /\ login' = [login EXCEPT ![s] = a]
  /\ build' = [build EXCEPT ![s] = b]
  /\ \/ GoTo(s, "session_key") /\ UNCHANGED closeVars
     \/ Fail(s)
  /\ UNCHANGED <<secLevel, key, rowHasVS, sent, authed>>
  /\ UNCHANGED <<patchVars, lifeVars, dbVars>>

\* SELECT sessionkey: the key of this moment is the one the proof is checked
\* against.
ReconnectSessionKey(s) ==
  /\ At(s, "session_key")
  /\ \/ /\ login[s] \notin rows
        /\ Fail(s)
        /\ UNCHANGED <<status, key, sent>>
     \/ /\ login[s] \in rows
        /\ key' = [key EXCEPT ![s] = sessionkey[login[s]]]
        /\ SetStatus(s, "RECON_PROOF")
        /\ Send(s, "RECONNECT_CHALLENGE")
        /\ GoTo(s, "idle")
        /\ UNCHANGED closeVars
  /\ UNCHANGED <<login, build, secLevel, rowHasVS, authed>>
  /\ UNCHANGED <<patchVars, lifeVars, dbVars>>

\* Mutation of HasSessionKey: an empty key is as good as any.
AnySessionKey(s) == TRUE

\* K.GetNumBytes(): the account had a session key when the handler read it.
HasSessionKey(s) == key[s] # NoKey

\* Mutation of HandleReconnectProofMatch: the reply comes before the UPDATE.
HandleReconnectProofUnpublished(s) ==
  /\ Dispatch(s, "RECON_PROOF")
  /\ HasSessionKey(s)
  /\ SetStatus(s, "CLOSED")
  /\ GoTo(s, "re_prove")
  /\ UNCHANGED <<sent, authed>>
  /\ UNCHANGED <<closeVars, claimVars, patchVars, lifeVars, dbVars>>

\* The proof matches the key; without a key there is nothing to match.
HandleReconnectProofMatch(s) ==
  /\ Dispatch(s, "RECON_PROOF")
  /\ HasSessionKey(s)
  /\ SetStatus(s, "CLOSED")
  /\ GoTo(s, "re_publish")
  /\ UNCHANGED <<sent, authed>>
  /\ UNCHANGED <<closeVars, claimVars, patchVars, lifeVars, dbVars>>

\* It does not match, or the account has no session key.
HandleReconnectProofMismatch(s) ==
  /\ Dispatch(s, "RECON_PROOF")
  /\ SetStatus(s, "CLOSED")
  /\ Fail(s)
  /\ UNCHANGED <<sent, authed>>
  /\ UNCHANGED <<claimVars, patchVars, lifeVars, dbVars>>

\* The checked UPDATE of client_locale and os.
ReconnectPublish(s) ==
  /\ At(s, "re_publish")
  /\ \/ /\ PublishReconnect(login[s], s)
        /\ GoTo(s, "re_prove")
        /\ UNCHANGED closeVars
     \/ /\ Fail(s)
        /\ UNCHANGED published
  /\ UNCHANGED <<status, sent, authed, rows, sessionkey, lastIp, delayQueue>>
  /\ UNCHANGED <<claimVars, patchVars, lifeVars, delayedVars>>

ReconnectProve(s) ==
  /\ At(s, "re_prove")
  /\ Send(s, "RECONNECT_PROOF")
  /\ SetStatus(s, "AUTHED")
  /\ GoTo(s, "disarm")
  /\ UNCHANGED authed
  /\ UNCHANGED <<closeVars, claimVars, patchVars, lifeVars, dbVars>>

-----------------------------------------------------------------------------
(* The end of a successful proof, of either kind, and of a patch offer.    *)

\* deactivate_auth_deadline, after the client has its answer.
Disarm(s) ==
  /\ \/ At(s, "disarm") /\ GoTo(s, "count")
     \/ At(s, "patch_disarm") /\ GoTo(s, "idle")
  /\ active' = [active EXCEPT ![s] = FALSE]
  /\ UNCHANGED <<closed, closeCause, closeAsked, status, sent, authed>>
  /\ UNCHANGED <<claimVars, patchVars, lifeVars, dbVars>>

\* Mutation of CountAuthed: a session closed meanwhile is not counted.
CountOpenAuthed(s) ==
  /\ At(s, "count")
  /\ authed' = IF closed[s] THEN authed ELSE authed + 1
  /\ GoTo(s, "idle")
  /\ UNCHANGED <<status, sent>>
  /\ UNCHANGED <<closeVars, claimVars, patchVars, lifeVars, dbVars>>

CountAuthed(s) ==
  /\ At(s, "count")
  /\ authed' = authed + 1
  /\ GoTo(s, "idle")
  /\ UNCHANGED <<status, sent>>
  /\ UNCHANGED <<closeVars, claimVars, patchVars, lifeVars, dbVars>>

-----------------------------------------------------------------------------
(* _HandleRealmList: the account must still exist; the list itself is the  *)
(* realm component's.                                                      *)
HandleRealmList(s) ==
  /\ Dispatch(s, "AUTHED")
  /\ \/ login[s] \notin rows /\ Fail(s) /\ UNCHANGED sent
     \/ /\ login[s] \in rows
        /\ Send(s, "REALM_LIST")
        /\ UNCHANGED <<closeVars, pc>>
  /\ UNCHANGED <<status, authed>>
  /\ UNCHANGED <<claimVars, patchVars, lifeVars, dbVars>>

-----------------------------------------------------------------------------
(* The patch transfer commands.                                            *)

\* Mutation of HandleXferStart: the session stays in STATUS_PATCH.
HandleXferStartAgain(s) ==
  /\ Dispatch(s, "PATCH")
  /\ artifact' = [artifact EXCEPT ![s] = FALSE]
  /\ streaming' = [streaming EXCEPT ![s] = TRUE]
  /\ UNCHANGED <<closeVars, pc, status, sent, authed>>
  /\ UNCHANGED <<claimVars, lifeVars, dbVars>>

\* _HandleXferAccept, _HandleXferResume and BeginPatchStream: the archive goes
\* to the patch thread, unless the offset lies behind its end or it cannot be
\* positioned.
HandleXferStart(s) ==
  /\ Dispatch(s, "PATCH")
  /\ artifact' = [artifact EXCEPT ![s] = FALSE]
  /\ \/ /\ artifact[s]
        /\ SetStatus(s, "CLOSED")
        /\ streaming' = [streaming EXCEPT ![s] = TRUE]
        /\ UNCHANGED <<closeVars, pc>>
     \/ /\ SetStatus(s, IF artifact[s] THEN "CLOSED" ELSE "PATCH")
        /\ Fail(s)
        /\ UNCHANGED streaming
  /\ UNCHANGED <<sent, authed>>
  /\ UNCHANGED <<claimVars, lifeVars, dbVars>>

HandleXferCancel(s) ==
  /\ Dispatch(s, "PATCH")
  /\ CloseConnection(s, "cancel")
  /\ UNCHANGED <<pc, status, sent, authed>>
  /\ UNCHANGED <<claimVars, patchVars, lifeVars, dbVars>>

\* The patch thread met a read error: it calls its copy of m_closer, past
\* m_closed.
PatchReadError(s) ==
  /\ streaming[s] /\ held[s] /\ ~closeAsked[s]
  /\ closeAsked' = [closeAsked EXCEPT ![s] = TRUE]
  /\ UNCHANGED <<closed, closeCause, active, pc, status, sent, authed>>
  /\ UNCHANGED <<claimVars, patchVars, lifeVars, dbVars>>

-----------------------------------------------------------------------------
(* Input that is refused, and the end of a session.                        *)

\* onData refuses its input: more than the pending limit, an unknown command,
\* one not allowed in this state, or a malformed frame.
RejectInput(s) ==
  /\ \E st \in Status : Dispatch(s, st)
  /\ CloseConnection(s, "rejected")
  /\ UNCHANGED <<pc, status, sent, authed>>
  /\ UNCHANGED <<claimVars, patchVars, lifeVars, dbVars>>

\* The transport reports the end of the connection, asked for or not, between
\* two frames, and drops its reference.
OnClose(s) ==
  /\ life[s] = "alive" /\ held[s] /\ pc[s] = "idle"
  /\ active' = [active EXCEPT ![s] = FALSE]
  /\ closed' = [closed EXCEPT ![s] = TRUE]
  /\ closeCause' = [closeCause EXCEPT ![s] =
                      IF closed[s] THEN @ ELSE "transport"]
  /\ held' = [held EXCEPT ![s] = FALSE]
  /\ UNCHANGED <<closeAsked, pc, status, sent, authed, life, deadline,
                 connections>>
  /\ UNCHANGED <<claimVars, patchVars, dbVars>>

\* Construction: the deadline is armed when a timeout is configured.
Construct(s, now, timeout) ==
  /\ life[s] = "new"
  /\ life' = [life EXCEPT ![s] = "alive"]
  /\ held' = [held EXCEPT ![s] = TRUE]
  /\ deadline' = [deadline EXCEPT ![s] = now + timeout]
  /\ active' = [active EXCEPT ![s] = timeout > 0]
  /\ connections' = connections + 1
  /\ UNCHANGED <<closed, closeCause, closeAsked, pc, status, sent, authed>>
  /\ UNCHANGED <<claimVars, patchVars, dbVars>>

\* Mutation of WasAuthed: every session is taken off the count.
WasAnySession(s) == TRUE

WasAuthed(s) == status[s] = "AUTHED"

\* Destruction, once nobody holds a reference.  Its frozen members are
\* forgotten, an archive nobody fetched is closed.
Destruct(s) ==
  /\ life[s] = "alive" /\ ~held[s]
  /\ life' = [life EXCEPT ![s] = "destroyed"]
  /\ authed' = IF WasAuthed(s) THEN authed - 1 ELSE authed
  /\ connections' = connections - 1
  /\ artifact' = [artifact EXCEPT ![s] = FALSE]
  /\ UNCHANGED <<held, deadline, pc, status, sent, streaming>>
  /\ UNCHANGED <<closeVars, claimVars, dbVars>>

\* What the network thread does for a session.
Handle(s) ==
  \/ \E a \in Account, b \in Build :
       HandleLogonChallenge(s, a, b) \/ HandleReconnectChallenge(s, a, b)
  \/ HandleLogonProofZeroA(s) \/ HandleLogonProofMatch(s)
  \/ HandleLogonProofMismatch(s)
  \/ HandleReconnectProofMatch(s) \/ HandleReconnectProofMismatch(s)
  \/ HandleRealmList(s) \/ HandleXferStart(s) \/ HandleXferCancel(s)
  \/ RejectInput(s)

\* The steps by which a handler that has begun reaches its end.
Continue(s) ==
  \/ ChallengeIpBan(s) \/ ChallengeAccount(s) \/ ChallengeAccountBan(s)
  \/ LogonPublish(s) \/ LogonProve(s)
  \/ FailedLoginIncrement(s) \/ FailedLoginCheck(s)
  \/ ReconnectSessionKey(s) \/ ReconnectPublish(s) \/ ReconnectProve(s)
  \/ Disarm(s) \/ CountAuthed(s)
=============================================================================

--------------------------- MODULE AuthStepProofs ---------------------------
(***************************************************************************)
(* What every step of AuthServer keeps, for every set of sessions,         *)
(* accounts and addresses and every configuration: the type of every       *)
(* variable, the position of a handler together with its session's         *)
(* members, and session keys.                                              *)
(***************************************************************************)
EXTENDS AuthServer, TLAPS

\* Where a handler stands and what _status is belong together, a claim is kept
\* before anything looks at it, a logon publishes the key it computed, and
\* nothing has happened to a session that does not exist yet.
Coherent ==
  \A s \in Session :
    /\ status[s] # "CHALLENGE" => login[s] \in Account
    /\ pc[s] \in {"disarm", "count"} => status[s] = "AUTHED"
    /\ pc[s] = "patch_disarm" => status[s] = "PATCH"
    /\ pc[s] \in {"ip_ban", "account", "account_ban", "publish", "prove",
                  "failed_inc", "failed_read", "session_key", "re_publish",
                  "re_prove"} => status[s] = "CLOSED"
    /\ pc[s] \in {"publish", "prove"} => key[s] = s
    /\ status[s] = "CHALLENGE" =>
         sent[s] = {} /\ ~artifact[s] /\ ~streaming[s]
    /\ life[s] = "new" => status[s] = "CHALLENGE" /\ ~held[s]

\* Only a sweep under way holds references.
SweepHolds == sweep \in {"sleeping", "stopped"} => refs = {}

(***************************************************************************)
(* Values the handlers write.                                              *)
(***************************************************************************)

\* LockedAccountResultForBuild answers with a refusal, for every build.
LEMMA LockedResultIsReply ==
  ASSUME NEW b
  PROVE  LockedAccountResultForBuild(b) \in
           Reply \ {"PROOF", "RECONNECT_PROOF", "WRONG_PASSWORD"}
BY DEF LockedAccountResultForBuild, Reply

\* The security level of a session is one of the levels realmd knows.
LEMMA SecurityLevelType ==
  ASSUME NEW a \in Account
  PROVE  SecurityLevel(a) \in SEC_PLAYER .. SEC_ADMINISTRATOR
BY SessionAssumption DEF SecurityLevel, SEC_PLAYER, SEC_ADMINISTRATOR

(***************************************************************************)
(* The cases of a step.                                                    *)
(***************************************************************************)

\* A step no claim, position, reply or row takes part in; it may close
\* sessions.
Quiet ==
  /\ UNCHANGED <<pc, status, sent, login, build, key, artifact, streaming,
                 life, connections, authed, rows, sessionkey, lastIp,
                 published>>
  /\ \A s \in Session : /\ closed[s] => closed'[s]
                        /\ held'[s] => held[s]
                        /\ held[s] /\ ~held'[s] => pc[s] = "idle"

\* The steps of one session that are not quiet, by handler.
LogonChallengeStep(s) ==
  \/ \E a \in Account, b \in Build : HandleLogonChallenge(s, a, b)
  \/ ChallengeIpBan(s) \/ ChallengeAccount(s) \/ ChallengeAccountBan(s)

LogonProofStep(s) ==
  \/ HandleLogonProofZeroA(s)
  \/ HandleLogonProofMatch(s) \/ LogonPublish(s) \/ LogonProve(s)
  \/ HandleLogonProofMismatch(s)
  \/ FailedLoginIncrement(s) \/ FailedLoginCheck(s)

ReconnectStep(s) ==
  \/ \E a \in Account, b \in Build : HandleReconnectChallenge(s, a, b)
  \/ ReconnectSessionKey(s)
  \/ HandleReconnectProofMatch(s) \/ HandleReconnectProofMismatch(s)
  \/ ReconnectPublish(s) \/ ReconnectProve(s)

OtherStep(s) ==
  \/ Disarm(s) \/ CountAuthed(s)
  \/ HandleRealmList(s) \/ HandleXferStart(s)
  \/ Accept(s) \/ Release(s)

\* Every step is a step of one session's handler, its construction or
\* destruction, the deletion of an account, or quiet.
LEMMA NextCases ==
  ASSUME TypeOK, [Next]_vars
  PROVE  \/ \E s \in Session : \/ LogonChallengeStep(s) \/ LogonProofStep(s)
                                \/ ReconnectStep(s) \/ OtherStep(s)
         \/ \E a \in Account : DeleteAccount(a) /\ UNCHANGED socketVars
         \/ Quiet
<1>a. closed \in [Session -> BOOLEAN] /\ held \in [Session -> BOOLEAN]
  BY DEF TypeOK, SocketTypeOK, LifeTypeOK, CloseTypeOK
<1> USE <1>a
    DEF Quiet, closeVars, claimVars, patchVars, lifeVars, dbVars, accountVars,
        socketVars, CloseConnection
<1>1. ASSUME NEW s \in Session, RejectInput(s) \/ HandleXferCancel(s)
      PROVE  Quiet
  BY <1>1 DEF RejectInput, HandleXferCancel
<1>2. ASSUME NEW s \in Session, SweepClose(s)
      PROVE  Quiet
  BY <1>2 DEF SweepClose
<1>3. ASSUME NEW s \in Session, OnClose(s)
      PROVE  Quiet
  BY <1>3 DEF OnClose
<1>4. ASSUME NEW s \in Session, PatchReadError(s)
      PROVE  Quiet
  BY <1>4 DEF PatchReadError
<1>5. ASSUME Stop
      PROVE  Quiet
  BY <1>5 DEF Stop
<1>6. ASSUME UNCHANGED <<socketVars, accountVars>>
      PROVE  Quiet
  BY <1>6
<1>7. ASSUME Tick \/ SweepBegin \/ SweepClock \/ SweepEnd \/ UNCHANGED vars
      PROVE  UNCHANGED <<socketVars, accountVars>>
  BY <1>7 DEF Tick, SweepBegin, SweepClock, SweepEnd, vars
<1>8. ASSUME NEW s \in Session, SweepAsk(s)
      PROVE  UNCHANGED <<socketVars, accountVars>>
  BY <1>8 DEF SweepAsk
<1>9. ASSUME DatabaseStep
      PROVE  \/ UNCHANGED <<socketVars, accountVars>>
             \/ \E a \in Account : DeleteAccount(a) /\ UNCHANGED socketVars
  <2> HIDE DEF Quiet, accountVars, socketVars
  <2> QED
    BY <1>9, Zenon DEF DatabaseStep, DelayThread, AccountBanEnds, IpBanEnds
<1> HIDE DEF Quiet, accountVars, socketVars
<1> QED
  BY <1>1, <1>2, <1>3, <1>4, <1>5, <1>6, <1>7, <1>8, <1>9, Zenon
  DEF Next, NetworkStep, Handle, Continue, TransportStep, Sweep,
      LogonChallengeStep,
      LogonProofStep, ReconnectStep, OtherStep

(***************************************************************************)
(* Session keys.                                                           *)
(***************************************************************************)

\* Keys.  A key in the table was issued; a session that holds a key for a
\* proof, or has proved it, holds one that was issued to its account; a session
\* whose key is in the table has published it and has not forgotten to answer.
Issued(s, k) == k \in published[login[s]] \/ login[s] \notin rows

Keys ==
  /\ \A a \in Account : sessionkey[a] # NoKey => sessionkey[a] \in published[a]
  /\ \A s \in Session :
       /\ pc[s] = "prove" => Issued(s, s)
       /\ status[s] = "RECON_PROOF" => key[s] = NoKey \/ Issued(s, key[s])
       /\ pc[s] \in {"re_publish", "re_prove"} => Issued(s, key[s])
       /\ pc[s] = "re_prove" => Issued(s, s)
       /\ status[s] = "AUTHED" => Issued(s, key[s])
       /\ sent[s] \cap {"PROOF", "RECONNECT_PROOF"} # {} => Issued(s, s)
       /\ \A a \in Account : sessionkey[a] = s =>
            \/ pc[s] = "prove"
            \/ status[s] = "AUTHED" /\ (closed[s] \/ "PROOF" \in sent[s])

\* Every step keeps what is known of the keys.
LEMMA KeysStep ==
  TypeOK /\ Coherent /\ Keys /\ [Next]_vars => Keys'
<1> SUFFICES ASSUME TypeOK, Coherent, Keys, [Next]_vars PROVE Keys'
  OBVIOUS
<1>a. /\ pc \in [Session -> Position] /\ status \in [Session -> Status]
      /\ login \in [Session -> Account \cup {NoLogin}]
      /\ key \in [Session -> Key \cup {NoKey}]
      /\ sent \in [Session -> SUBSET Reply]
      /\ closed \in [Session -> BOOLEAN]
      /\ sessionkey \in [Account -> Key \cup {NoKey}]
      /\ published \in [Account -> SUBSET Key]
  BY DEF TypeOK, SocketTypeOK, DatabaseTypeOK, AccountTypeOK, ClaimTypeOK,
     HandlerTypeOK, CloseTypeOK
<1> USE <1>a, KeyAssumption
    DEF Keys, Issued, Coherent, closeVars, claimVars, socketVars, dbVars,
        accountVars, GoTo, SetStatus, Send, Refuse, Fail, CloseConnection,
        Dispatch, At
<1>1. ASSUME NEW s \in Session, LogonChallengeStep(s)
      PROVE  Keys'
  <2>1. ASSUME NEW a \in Account, NEW b \in Build, HandleLogonChallenge(s, a, b)
        PROVE  Keys'
    BY <2>1 DEF HandleLogonChallenge
  <2>2. CASE ChallengeIpBan(s)
    BY <2>2 DEF ChallengeIpBan
  <2>3. CASE ChallengeAccount(s)
    BY <2>3, LockedResultIsReply DEF ChallengeAccount
  <2>4. CASE ChallengeAccountBan(s)
    BY <2>4 DEF ChallengeAccountBan
  <2> QED
    BY <1>1, <2>1, <2>2, <2>3, <2>4, Zenon DEF LogonChallengeStep
<1>2. ASSUME NEW s \in Session, LogonProofStep(s)
      PROVE  Keys'
  <2>1. CASE HandleLogonProofZeroA(s)
    BY <2>1 DEF HandleLogonProofZeroA
  <2>2. CASE HandleLogonProofMatch(s)
    BY <2>2, SMTT(15) DEF HandleLogonProofMatch, OfferPatch
  <2>3. CASE LogonPublish(s)
    BY <2>3 DEF LogonPublish, PublishLogon
  <2>4. CASE LogonProve(s)
    BY <2>4 DEF LogonProve
  <2>5. CASE HandleLogonProofMismatch(s)
    BY <2>5 DEF HandleLogonProofMismatch
  <2>6. CASE FailedLoginIncrement(s)
    BY <2>6 DEF FailedLoginIncrement
  <2>7. CASE FailedLoginCheck(s)
    BY <2>7 DEF FailedLoginCheck
  <2> QED
    BY <1>2, <2>1, <2>2, <2>3, <2>4, <2>5, <2>6, <2>7, Zenon DEF LogonProofStep
<1>3. ASSUME NEW s \in Session, ReconnectStep(s)
      PROVE  Keys'
  <2>1. ASSUME NEW a \in Account, NEW b \in Build, HandleReconnectChallenge(s, a, b)
        PROVE  Keys'
    BY <2>1 DEF HandleReconnectChallenge
  <2>2. CASE ReconnectSessionKey(s)
    BY <2>2 DEF ReconnectSessionKey
  <2>3. CASE HandleReconnectProofMatch(s)
    BY <2>3 DEF HandleReconnectProofMatch, HasSessionKey
  <2>4. CASE HandleReconnectProofMismatch(s)
    BY <2>4 DEF HandleReconnectProofMismatch
  <2>5. CASE ReconnectPublish(s)
    BY <2>5 DEF ReconnectPublish, PublishReconnect
  <2>6. CASE ReconnectProve(s)
    BY <2>6 DEF ReconnectProve
  <2> QED
    BY <1>3, <2>1, <2>2, <2>3, <2>4, <2>5, <2>6, Zenon DEF ReconnectStep
<1>4. ASSUME NEW s \in Session, OtherStep(s)
      PROVE  Keys'
  <2>1. CASE Disarm(s)
    BY <2>1 DEF Disarm
  <2>2. CASE CountAuthed(s)
    BY <2>2 DEF CountAuthed
  <2>3. CASE HandleRealmList(s)
    BY <2>3 DEF HandleRealmList
  <2>4. CASE HandleXferStart(s)
    BY <2>4 DEF HandleXferStart
  <2>5. CASE Accept(s)
    BY <2>5 DEF Accept, Construct
  <2>6. CASE Release(s)
    BY <2>6 DEF Release, Destruct
  <2> QED
    BY <1>4, <2>1, <2>2, <2>3, <2>4, <2>5, <2>6, Zenon DEF OtherStep
<1>5. ASSUME NEW a \in Account, DeleteAccount(a), UNCHANGED socketVars
      PROVE  Keys'
  BY <1>5 DEF DeleteAccount
<1>6. ASSUME Quiet
      PROVE  Keys'
  BY <1>6 DEF Quiet
<1> QED
  BY <1>1, <1>2, <1>3, <1>4, <1>5, <1>6, NextCases, Zenon

(***************************************************************************)
(* Positions and claims.                                                   *)
(***************************************************************************)

\* Every step keeps position, _status and claim together.
LEMMA CoherentStep ==
  TypeOK /\ Coherent /\ [Next]_vars => Coherent'
<1> SUFFICES ASSUME TypeOK, Coherent, [Next]_vars PROVE Coherent'
  OBVIOUS
<1>a. /\ pc \in [Session -> Position] /\ status \in [Session -> Status]
      /\ login \in [Session -> Account \cup {NoLogin}]
      /\ key \in [Session -> Key \cup {NoKey}]
      /\ sent \in [Session -> SUBSET Reply]
      /\ artifact \in [Session -> BOOLEAN]
      /\ streaming \in [Session -> BOOLEAN]
      /\ life \in [Session -> {"new", "alive", "destroyed"}]
      /\ held \in [Session -> BOOLEAN]
  BY DEF TypeOK, SocketTypeOK, LifeTypeOK, ClaimTypeOK, PatchTypeOK,
     HandlerTypeOK
<1> USE <1>a
    DEF Coherent, closeVars, claimVars, patchVars, lifeVars, socketVars, GoTo,
        SetStatus, Send, Refuse, Fail, Dispatch, At
<1>1. ASSUME NEW s \in Session, LogonChallengeStep(s)
      PROVE  Coherent'
  <2>1. ASSUME NEW a \in Account, NEW b \in Build, HandleLogonChallenge(s, a, b)
        PROVE  Coherent'
    BY <2>1 DEF HandleLogonChallenge
  <2>2. CASE ChallengeIpBan(s)
    BY <2>2 DEF ChallengeIpBan
  <2>3. CASE ChallengeAccount(s)
    BY <2>3 DEF ChallengeAccount
  <2>4. CASE ChallengeAccountBan(s)
    BY <2>4, SMTT(15) DEF ChallengeAccountBan
  <2> QED
    BY <1>1, <2>1, <2>2, <2>3, <2>4, Zenon DEF LogonChallengeStep
<1>2. ASSUME NEW s \in Session, LogonProofStep(s)
      PROVE  Coherent'
  <2>1. CASE HandleLogonProofZeroA(s)
    BY <2>1, Zenon DEF HandleLogonProofZeroA
  <2>2. CASE HandleLogonProofMatch(s)
    <3>1. /\ status[s] = "LOGON_PROOF"
          /\ key' = [key EXCEPT ![s] = s]
          /\ \/ /\ pc' = [pc EXCEPT ![s] = "patch_disarm"]
                /\ status' = [status EXCEPT ![s] = "PATCH"]
             \/ \E p \in {"idle", "publish"} :
                  /\ pc' = [pc EXCEPT ![s] = p]
                  /\ status' = [status EXCEPT ![s] = "CLOSED"]
          /\ UNCHANGED <<login, life, held, streaming>>
      BY <2>2, Zenon DEF HandleLogonProofMatch, OfferPatch
    <3>2. /\ \A t \in Session \ {s} :
               sent'[t] = sent[t] /\ artifact'[t] = artifact[t]
      BY <2>2 DEF HandleLogonProofMatch, OfferPatch
    <3> QED  BY <3>1, <3>2
  <2>3. CASE LogonPublish(s)
    BY <2>3 DEF LogonPublish
  <2>4. CASE LogonProve(s)
    BY <2>4, Zenon DEF LogonProve
  <2>5. CASE HandleLogonProofMismatch(s)
    BY <2>5, Zenon DEF HandleLogonProofMismatch
  <2>6. CASE FailedLoginIncrement(s)
    BY <2>6, Zenon DEF FailedLoginIncrement
  <2>7. CASE FailedLoginCheck(s)
    BY <2>7, Zenon DEF FailedLoginCheck
  <2> QED
    BY <1>2, <2>1, <2>2, <2>3, <2>4, <2>5, <2>6, <2>7, Zenon DEF LogonProofStep
<1>3. ASSUME NEW s \in Session, ReconnectStep(s)
      PROVE  Coherent'
  <2>1. ASSUME NEW a \in Account, NEW b \in Build, HandleReconnectChallenge(s, a, b)
        PROVE  Coherent'
    BY <2>1 DEF HandleReconnectChallenge
  <2>2. CASE ReconnectSessionKey(s)
    BY <2>2 DEF ReconnectSessionKey
  <2>3. CASE HandleReconnectProofMatch(s)
    BY <2>3, Zenon DEF HandleReconnectProofMatch
  <2>4. CASE HandleReconnectProofMismatch(s)
    BY <2>4, Zenon DEF HandleReconnectProofMismatch
  <2>5. CASE ReconnectPublish(s)
    BY <2>5 DEF ReconnectPublish
  <2>6. CASE ReconnectProve(s)
    BY <2>6, Zenon DEF ReconnectProve
  <2> QED
    BY <1>3, <2>1, <2>2, <2>3, <2>4, <2>5, <2>6, Zenon DEF ReconnectStep
<1>4. ASSUME NEW s \in Session, OtherStep(s)
      PROVE  Coherent'
  <2>1. CASE Disarm(s)
    BY <2>1 DEF Disarm
  <2>2. CASE CountAuthed(s)
    BY <2>2, Zenon DEF CountAuthed
  <2>3. CASE HandleRealmList(s)
    BY <2>3 DEF HandleRealmList
  <2>4. CASE HandleXferStart(s)
    BY <2>4 DEF HandleXferStart
  <2>5. CASE Accept(s)
    BY <2>5, Zenon DEF Accept, Construct
  <2>6. CASE Release(s)
    BY <2>6, Zenon DEF Release, Destruct
  <2> QED
    BY <1>4, <2>1, <2>2, <2>3, <2>4, <2>5, <2>6, Zenon DEF OtherStep
<1>5. ASSUME NEW a \in Account, DeleteAccount(a), UNCHANGED socketVars
      PROVE  Coherent'
  BY <1>5 DEF DeleteAccount
<1>6. ASSUME Quiet
      PROVE  Coherent'
  BY <1>6 DEF Quiet
<1> QED
  BY <1>1, <1>2, <1>3, <1>4, <1>5, <1>6, NextCases, Zenon

(***************************************************************************)
(* Type correctness.                                                       *)
(***************************************************************************)

\* The strings the handlers name are what their variables range over.
LEMMA Literals ==
  /\ \A p \in {"idle", "ip_ban", "account", "account_ban", "publish", "prove",
               "failed_inc", "failed_read", "session_key", "re_publish",
               "re_prove", "disarm", "count", "patch_disarm"} : p \in Position
  /\ \A st \in {"LOGON_PROOF", "RECON_PROOF", "PATCH", "AUTHED", "CLOSED"} :
       st \in Status
  /\ {"FAIL_BANNED", "FAIL_SUSPENDED", "FAIL_UNKNOWN_ACCOUNT", "CHALLENGE",
      "WRONG_PASSWORD", "VERSION_INVALID", "VERSION_UPDATE", "PROOF",
      "RECONNECT_CHALLENGE", "RECONNECT_PROOF", "REALM_LIST"} \subseteq Reply
  /\ {"transport", "deadline", "rejected", "handler", "cancel"} \subseteq Cause
BY DEF Position, Status, Reply, Cause

\* Moving the position of a session's handler keeps pc's type.
LEMMA GoToType ==
  ASSUME pc \in [Session -> Position], NEW s \in Session, NEW p \in Position,
         GoTo(s, p)
  PROVE  pc' \in [Session -> Position]
BY DEF GoTo

\* Assigning _status keeps its type.
LEMMA SetStatusType ==
  ASSUME status \in [Session -> Status], NEW s \in Session, NEW st \in Status,
         SetStatus(s, st)
  PROVE  status' \in [Session -> Status]
BY DEF SetStatus

\* AuthSocket::send keeps the type of what was sent, closed or not.
LEMMA SendType ==
  ASSUME sent \in [Session -> SUBSET Reply], NEW s \in Session,
         NEW r \in Reply, Send(s, r)
  PROVE  sent' \in [Session -> SUBSET Reply]
BY DEF Send

\* close_connection keeps the types of the four variables it writes.
LEMMA CloseType ==
  ASSUME CloseTypeOK, NEW s \in Session, NEW c \in Cause,
         CloseConnection(s, c)
  PROVE  CloseTypeOK'
BY DEF CloseTypeOK, CloseConnection

\* A group of a session's members that a step leaves alone keeps its type.
LEMMA FrameTypes ==
  ASSUME SocketTypeOK
  PROVE  /\ UNCHANGED lifeVars => LifeTypeOK'
         /\ UNCHANGED closeVars => CloseTypeOK'
         /\ UNCHANGED claimVars => ClaimTypeOK'
         /\ UNCHANGED patchVars => PatchTypeOK'
<1>1. UNCHANGED lifeVars => LifeTypeOK'
  BY DEF SocketTypeOK, LifeTypeOK, lifeVars
<1>2. UNCHANGED closeVars => CloseTypeOK'
  BY DEF SocketTypeOK, CloseTypeOK, closeVars
<1>3. UNCHANGED claimVars => ClaimTypeOK'
  BY DEF SocketTypeOK, ClaimTypeOK, claimVars
<1>4. UNCHANGED patchVars => PatchTypeOK'
  BY DEF SocketTypeOK, PatchTypeOK, patchVars
<1> QED  BY <1>1, <1>2, <1>3, <1>4

\* A session is accepted with a deadline in the clock's range.
LEMMA AcceptTypes ==
  ASSUME TypeOK, NEW s \in Session, Accept(s)
  PROVE  LifeTypeOK' /\ CloseTypeOK'
<1>1. LifeTypeOK /\ CloseTypeOK /\ clock \in Nat
  BY TimeAssumption DEF TypeOK, SocketTypeOK
<1>2. clock + AuthTimeout \in Nat /\ (AuthTimeout > 0) \in BOOLEAN
  BY <1>1, TimeAssumption
<1>3. LifeTypeOK'
  BY <1>1, <1>2 DEF Accept, Construct, LifeTypeOK
<1>4. CloseTypeOK'
  BY <1>1, <1>2 DEF Accept, Construct, CloseTypeOK
<1> QED  BY <1>3, <1>4

\* Every step of every thread keeps the types of a session's members.
LEMMA SocketTypeStep ==
  TypeOK /\ Coherent /\ [Next]_vars => SocketTypeOK'
<1> SUFFICES ASSUME TypeOK, Coherent, [Next]_vars PROVE SocketTypeOK'
  OBVIOUS
<1>a. SocketTypeOK /\ DatabaseTypeOK
  BY DEF TypeOK
<1>b. /\ UNCHANGED lifeVars => LifeTypeOK'
      /\ UNCHANGED closeVars => CloseTypeOK'
      /\ UNCHANGED claimVars => ClaimTypeOK'
      /\ UNCHANGED patchVars => PatchTypeOK'
  BY <1>a, FrameTypes
<1> USE <1>a, <1>b, Literals, GoToType, SetStatusType, SendType, CloseType
    DEF SocketTypeOK, HandlerTypeOK
<1>1. ASSUME NEW s \in Session, NEW a \in Account, NEW b \in Build,
             HandleLogonChallenge(s, a, b)
      PROVE  SocketTypeOK'
  BY <1>1 DEF HandleLogonChallenge, Fail, ClaimTypeOK
<1>2. ASSUME NEW s \in Session, NEW a \in Account, NEW b \in Build,
             HandleReconnectChallenge(s, a, b)
      PROVE  SocketTypeOK'
  BY <1>2 DEF HandleReconnectChallenge, Fail, ClaimTypeOK
<1>3. ASSUME NEW s \in Session, HandleLogonProofZeroA(s)
      PROVE  SocketTypeOK'
  BY <1>3 DEF HandleLogonProofZeroA, Fail
<1>4. ASSUME NEW s \in Session, HandleLogonProofMatch(s)
      PROVE  SocketTypeOK'
  BY <1>4, Zenon
  DEF HandleLogonProofMatch, OfferPatch, Refuse, ClaimTypeOK, PatchTypeOK,
      Key
<1>5. ASSUME NEW s \in Session, HandleLogonProofMismatch(s)
      PROVE  SocketTypeOK'
  BY <1>5 DEF HandleLogonProofMismatch, ClaimTypeOK, Key
<1>6. ASSUME NEW s \in Session, HandleReconnectProofMatch(s)
      PROVE  SocketTypeOK'
  BY <1>6 DEF HandleReconnectProofMatch
<1>7. ASSUME NEW s \in Session, HandleReconnectProofMismatch(s)
      PROVE  SocketTypeOK'
  BY <1>7 DEF HandleReconnectProofMismatch, Fail
<1>8. ASSUME NEW s \in Session, HandleRealmList(s)
      PROVE  SocketTypeOK'
  BY <1>8 DEF HandleRealmList, Fail
<1>9. ASSUME NEW s \in Session, HandleXferStart(s)
      PROVE  SocketTypeOK'
  BY <1>9, Zenon DEF HandleXferStart, Fail, PatchTypeOK
<1>10. ASSUME NEW s \in Session, HandleXferCancel(s)
      PROVE  SocketTypeOK'
  BY <1>10 DEF HandleXferCancel
<1>11. ASSUME NEW s \in Session, RejectInput(s)
      PROVE  SocketTypeOK'
  BY <1>11 DEF RejectInput
<1>12. ASSUME NEW s \in Session, ChallengeIpBan(s)
      PROVE  SocketTypeOK'
  BY <1>12 DEF ChallengeIpBan, Refuse
<1>13. ASSUME NEW s \in Session, ChallengeAccount(s)
      PROVE  SocketTypeOK'
  <2>1. login[s] \in Account
    BY <1>13 DEF Coherent, ChallengeAccount, At
  <2>2. [rowHasVS EXCEPT ![s] = hasVS[login[s]]] \in [Session -> BOOLEAN]
    BY <2>1 DEF DatabaseTypeOK, DelayedTypeOK, ClaimTypeOK
  <2>3. ClaimTypeOK'
    BY <1>13, <2>2 DEF ChallengeAccount, ClaimTypeOK
  <2> QED
    BY <1>13, <2>3, LockedResultIsReply DEF ChallengeAccount, Refuse
<1>14. ASSUME NEW s \in Session, ChallengeAccountBan(s)
      PROVE  SocketTypeOK'
  <2>1. SecurityLevel(login[s]) \in SEC_PLAYER .. SEC_ADMINISTRATOR
    BY <1>14, SecurityLevelType DEF Coherent, ChallengeAccountBan, At
  <2>2. \A kind : (IF kind = "permanent" THEN "FAIL_BANNED"
                                          ELSE "FAIL_SUSPENDED") \in Reply
    OBVIOUS
  <2>3. ClaimTypeOK'
    BY <1>14, <2>1 DEF ChallengeAccountBan, ClaimTypeOK
  <2> QED
    BY <1>14, <2>2, <2>3 DEF ChallengeAccountBan, Refuse
<1>15. ASSUME NEW s \in Session, LogonPublish(s)
      PROVE  SocketTypeOK'
  BY <1>15 DEF LogonPublish, Fail
<1>16. ASSUME NEW s \in Session, LogonProve(s)
      PROVE  SocketTypeOK'
  BY <1>16 DEF LogonProve
<1>17. ASSUME NEW s \in Session, FailedLoginIncrement(s)
      PROVE  SocketTypeOK'
  BY <1>17 DEF FailedLoginIncrement
<1>18. ASSUME NEW s \in Session, FailedLoginCheck(s)
      PROVE  SocketTypeOK'
  BY <1>18 DEF FailedLoginCheck
<1>19. ASSUME NEW s \in Session, ReconnectSessionKey(s)
      PROVE  SocketTypeOK'
  <2>1. sessionkey[login[s]] \in Key \cup {NoKey}
    BY <1>19
    DEF Coherent, ReconnectSessionKey, At, DatabaseTypeOK, AccountTypeOK
  <2>2. ClaimTypeOK'
    BY <1>19, <2>1 DEF ReconnectSessionKey, ClaimTypeOK
  <2> QED
    BY <1>19, <2>2 DEF ReconnectSessionKey, Fail
<1>20. ASSUME NEW s \in Session, ReconnectPublish(s)
      PROVE  SocketTypeOK'
  BY <1>20 DEF ReconnectPublish, Fail
<1>21. ASSUME NEW s \in Session, ReconnectProve(s)
      PROVE  SocketTypeOK'
  BY <1>21 DEF ReconnectProve
<1>22. ASSUME NEW s \in Session, Disarm(s)
      PROVE  SocketTypeOK'
  BY <1>22 DEF Disarm, CloseTypeOK
<1>23. ASSUME NEW s \in Session, CountAuthed(s)
      PROVE  SocketTypeOK'
  BY <1>23 DEF CountAuthed
<1>24. ASSUME NEW s \in Session, OnClose(s)
      PROVE  SocketTypeOK'
  BY <1>24 DEF OnClose, CloseTypeOK, LifeTypeOK
<1>25. ASSUME NEW s \in Session, PatchReadError(s)
      PROVE  SocketTypeOK'
  BY <1>25 DEF PatchReadError, CloseTypeOK
<1>26. ASSUME NEW s \in Session, Accept(s)
      PROVE  SocketTypeOK'
  BY <1>26, AcceptTypes DEF Accept, Construct
<1>27. ASSUME NEW s \in Session, Release(s)
      PROVE  SocketTypeOK'
  <2>1. authed' \in Int /\ LifeTypeOK' /\ PatchTypeOK'
    BY <1>27, SMTT(15) DEF Release, Destruct, LifeTypeOK, PatchTypeOK
  <2> QED
    BY <1>27, <2>1 DEF Release, Destruct
<1>28. ASSUME NEW s \in Session, SweepClose(s)
      PROVE  SocketTypeOK'
  BY <1>28 DEF SweepClose
<1>29. ASSUME Stop
      PROVE  SocketTypeOK'
  <2>1. LifeTypeOK' /\ CloseTypeOK'
    BY <1>29 DEF Stop, LifeTypeOK, CloseTypeOK
  <2> QED
    BY <1>29, <2>1 DEF Stop
<1>30. ASSUME UNCHANGED socketVars
      PROVE  SocketTypeOK'
  BY <1>30 DEF socketVars, closeVars, claimVars, patchVars, lifeVars
<1> QED
  BY <1>1, <1>2, <1>3, <1>4, <1>5, <1>6, <1>7, <1>8, <1>9, <1>10, <1>11,
     <1>12, <1>13, <1>14, <1>15, <1>16, <1>17, <1>18, <1>19, <1>20, <1>21,
     <1>22, <1>23, <1>24, <1>25, <1>26, <1>27, <1>28, <1>29, <1>30, Zenon
  DEF Next, NetworkStep, Handle, Continue, TransportStep, Sweep, SweepBegin,
      SweepClock, SweepAsk, SweepEnd, Tick, DatabaseStep, vars

\* A group of columns, or the queue, that a step leaves alone keeps its type.
LEMMA DatabaseFrame ==
  ASSUME DatabaseTypeOK
  PROVE  /\ UNCHANGED accountVars => AccountTypeOK'
         /\ UNCHANGED delayedVars => DelayedTypeOK'
         /\ UNCHANGED delayQueue => QueueTypeOK'
<1>1. UNCHANGED accountVars => AccountTypeOK'
  BY DEF DatabaseTypeOK, AccountTypeOK, accountVars
<1>2. UNCHANGED delayedVars => DelayedTypeOK'
  BY DEF DatabaseTypeOK, DelayedTypeOK, delayedVars
<1>3. UNCHANGED delayQueue => QueueTypeOK'
  BY DEF DatabaseTypeOK, QueueTypeOK
<1> QED  BY <1>1, <1>2, <1>3

\* A statement handed to PExecute keeps the type of the queue.
LEMMA PExecuteType ==
  ASSUME QueueTypeOK, NEW a \in Account, NEW ip \in Ip
  PROVE  /\ PExecute("inc_failed_logins", a) => QueueTypeOK'
         /\ PExecute("ban_account", a) => QueueTypeOK'
         /\ PExecute("set_vs", a) => QueueTypeOK'
         /\ PExecute("ban_ip", ip) => QueueTypeOK'
<1>1. /\ [op |-> "inc_failed_logins", of |-> a] \in Statement
      /\ [op |-> "ban_account", of |-> a] \in Statement
      /\ [op |-> "set_vs", of |-> a] \in Statement
      /\ [op |-> "ban_ip", of |-> ip] \in Statement
  BY DEF Statement
<1>2. \A stmt \in Statement : Append(delayQueue, stmt) \in Seq(Statement)
  BY DEF QueueTypeOK
<1> QED  BY <1>1, <1>2, Zenon DEF PExecute, QueueTypeOK

\* The checked UPDATE of a logon keeps the types of the columns it writes.
LEMMA PublishLogonType ==
  ASSUME DatabaseTypeOK, NEW a \in Account, NEW k \in Key, NEW ip \in Ip,
         PublishLogon(a, k, ip), UNCHANGED <<rows, hasVS, accountBanned, ipBanned>>
  PROVE  AccountTypeOK' /\ DelayedTypeOK'
<1> USE DEF DatabaseTypeOK, AccountTypeOK, DelayedTypeOK
<1>1. CASE a \in rows
  <2>1. published[a] \cup {k} \in SUBSET Key
    OBVIOUS
  <2>2. published' \in [Account -> SUBSET Key]
    BY <1>1, <2>1 DEF PublishLogon
  <2>3. /\ sessionkey' \in [Account -> Key \cup {NoKey}]
        /\ lastIp' \in [Account -> Ip]
    <3>1. /\ sessionkey' = [sessionkey EXCEPT ![a] = k]
          /\ lastIp' = [lastIp EXCEPT ![a] = ip]
      BY <1>1, Zenon DEF PublishLogon
    <3> QED  BY <3>1
  <2>4. failedLogins' \in [Account -> Nat]
    <3>1. failedLogins \in [Account -> Nat]
      OBVIOUS
    <3>2. failedLogins' = [failedLogins EXCEPT ![a] = 0]
      BY <1>1, Zenon DEF PublishLogon
    <3> QED  BY ONLY <3>1, <3>2
  <2> QED  BY <2>2, <2>3, <2>4, Zenon
<1>2. CASE a \notin rows
  BY <1>2, Zenon DEF PublishLogon
<1> QED  BY <1>1, <1>2

\* What the delay thread takes from a queue is a member, and leaves a queue.
LEMMA QueueType ==
  ASSUME NEW S, NEW q \in Seq(S), q # <<>>
  PROVE  Head(q) \in S /\ Tail(q) \in Seq(S)
OBVIOUS

\* The delay thread keeps the types of the columns its statements write, and
\* of the queue.
LEMMA DelayThreadType ==
  ASSUME DatabaseTypeOK, DelayThread
  PROVE  DelayedTypeOK' /\ QueueTypeOK'
<1> DEFINE stmt == Head(delayQueue)
<1>1. stmt \in Statement /\ Tail(delayQueue) \in Seq(Statement)
  <2>1. delayQueue \in Seq(Statement) /\ delayQueue # <<>>
    BY Zenon DEF DelayThread, DatabaseTypeOK, QueueTypeOK
  <2> QED  BY ONLY <2>1, QueueType
<1>2. QueueTypeOK'
  BY <1>1, Zenon DEF DelayThread, QueueTypeOK
<1>3. AutobanKind \in BanKind
  BY DEF AutobanKind, BanKind
<1>a. DelayedTypeOK
  BY DEF DatabaseTypeOK
<1> SUFFICES DelayedTypeOK'
  BY <1>2
<1> USE <1>a DEF DelayedTypeOK
<1>4. CASE stmt.op = "inc_failed_logins"
  <2>1. /\ UNCHANGED <<hasVS, accountBanned, ipBanned>>
        /\ failedLogins' = [failedLogins EXCEPT ![stmt.of] =
                              IF stmt.of \in rows THEN @ + 1 ELSE @]
    BY <1>4, Zenon DEF DelayThread
  <2> HIDE DEF stmt
  <2>2. failedLogins \in [Account -> Nat]
    OBVIOUS
  <2>3. ASSUME stmt.of \in Account
        PROVE  (IF stmt.of \in rows THEN failedLogins[stmt.of] + 1
                                    ELSE failedLogins[stmt.of]) \in Nat
    BY ONLY <2>2, <2>3
  <2>4. failedLogins' \in [Account -> Nat]
    BY ONLY <2>1, <2>2, <2>3, Zenon
  <2> QED  BY <2>1, <2>4, Zenon
<1>5. CASE stmt.op = "ban_account"
  <2>1. /\ UNCHANGED <<failedLogins, hasVS, ipBanned>>
        /\ accountBanned' = [accountBanned EXCEPT ![stmt.of] =
                               @ \cup {AutobanKind}]
    BY <1>5, Zenon DEF DelayThread
  <2> HIDE DEF stmt
  <2>2. accountBanned' \in [Account -> SUBSET BanKind]
    BY <1>3, <2>1, Zenon
  <2> QED  BY <2>1, <2>2, Zenon
<1>6. CASE stmt.op = "ban_ip"
  <2>1. /\ UNCHANGED <<failedLogins, hasVS, accountBanned>>
        /\ ipBanned' = [ipBanned EXCEPT ![stmt.of] = @ \cup {AutobanKind}]
    BY <1>6, Zenon DEF DelayThread
  <2> HIDE DEF stmt
  <2>2. ipBanned' \in [Ip -> SUBSET BanKind]
    BY <1>3, <2>1, Zenon
  <2> QED  BY <2>1, <2>2, Zenon
<1>7. CASE stmt.op = "set_vs"
  <2>1. /\ UNCHANGED <<failedLogins, accountBanned, ipBanned>>
        /\ \E full \in BOOLEAN :
             hasVS' = [hasVS EXCEPT ![stmt.of] =
                         IF stmt.of \in rows THEN full ELSE @]
    BY <1>7, Zenon DEF DelayThread
  <2> HIDE DEF stmt
  <2> QED  BY <2>1, Zenon
<1> HIDE DEF DelayedTypeOK
<1>8. \/ stmt.op = "inc_failed_logins" \/ stmt.op = "ban_account"
      \/ stmt.op = "ban_ip" \/ stmt.op = "set_vs"
  BY Zenon DEF DelayThread
<1> QED  BY <1>4, <1>5, <1>6, <1>7, <1>8

\* Every step of a session and of the delay thread keeps the types of the
\* tables and of the queue.
LEMMA DatabaseTypeStep ==
  TypeOK /\ Coherent /\ [Next]_vars => DatabaseTypeOK'
<1> SUFFICES ASSUME TypeOK, Coherent, [Next]_vars PROVE DatabaseTypeOK'
  OBVIOUS
<1>a. DatabaseTypeOK /\ AccountTypeOK /\ DelayedTypeOK /\ QueueTypeOK
  BY DEF TypeOK, DatabaseTypeOK
<1>b. /\ UNCHANGED accountVars => AccountTypeOK'
      /\ UNCHANGED delayedVars => DelayedTypeOK'
      /\ UNCHANGED delayQueue => QueueTypeOK'
  BY <1>a, DatabaseFrame
<1>c. UNCHANGED dbVars => DatabaseTypeOK'
  BY <1>b DEF dbVars, accountVars, delayedVars, DatabaseTypeOK
<1>d. \A s \in Session :
        /\ AddressOf[s] \in Ip
        /\ \/ login[s] \in Account
           \/ pc[s] \notin {"account_ban", "publish", "failed_inc",
                            "failed_read", "re_publish"}
  BY SessionAssumption, Zenon DEF Coherent
<1>1. ASSUME NEW s \in Session, ChallengeAccountBan(s)
      PROVE  DatabaseTypeOK'
  <2>1. login[s] \in Account /\ AddressOf[s] \in Ip
    BY <1>1, <1>d, Zenon DEF ChallengeAccountBan, At
  <2> QED
    BY <1>1, <1>a, <1>b, <2>1, PExecuteType, Zenon
    DEF ChallengeAccountBan, DatabaseTypeOK
<1>2. ASSUME NEW s \in Session, LogonPublish(s)
      PROVE  DatabaseTypeOK'
  <2>1. /\ login[s] \in Account /\ key[s] \in Key
        /\ AddressOf[s] \in Ip
    BY <1>2, <1>d, Zenon DEF LogonPublish, At, Coherent, Key
  <2> QED
    BY <1>2, <1>a, <1>b, <2>1, PublishLogonType, Zenon
    DEF LogonPublish, DatabaseTypeOK, accountVars, delayedVars
<1>3. ASSUME NEW s \in Session, FailedLoginIncrement(s)
      PROVE  DatabaseTypeOK'
  <2>1. login[s] \in Account /\ AddressOf[s] \in Ip
    BY <1>3, <1>d, Zenon DEF FailedLoginIncrement, At
  <2> QED
    BY <1>3, <1>a, <1>b, <2>1, PExecuteType, Zenon
    DEF FailedLoginIncrement, DatabaseTypeOK
<1>4. ASSUME NEW s \in Session, FailedLoginCheck(s)
      PROVE  DatabaseTypeOK'
  <2>1. login[s] \in Account /\ AddressOf[s] \in Ip
    BY <1>4, <1>d, Zenon DEF FailedLoginCheck, At
  <2> QED
    BY <1>4, <1>a, <1>b, <2>1, PExecuteType, Zenon
    DEF FailedLoginCheck, DatabaseTypeOK
<1>5. ASSUME NEW s \in Session, ReconnectPublish(s)
      PROVE  DatabaseTypeOK'
  <2>1. login[s] \in Account /\ s \in Key
    BY <1>5, <1>d, Zenon DEF ReconnectPublish, At, Key
  <2>2. published[login[s]] \cup {s} \in SUBSET Key
    BY <1>a, <2>1 DEF AccountTypeOK
  <2>3. AccountTypeOK'
    BY <1>a, <1>5, <2>1, <2>2
    DEF ReconnectPublish, PublishReconnect, AccountTypeOK
  <2> QED
    BY <1>5, <1>b, <2>3, Zenon DEF ReconnectPublish, DatabaseTypeOK
<1>6. ASSUME DelayThread
      PROVE  DatabaseTypeOK'
  BY <1>6, <1>a, <1>b, DelayThreadType, Zenon DEF DelayThread, DatabaseTypeOK
<1>7. ASSUME NEW a \in Account, DeleteAccount(a)
      PROVE  DatabaseTypeOK'
  BY <1>7, <1>a, <1>b, Zenon DEF DeleteAccount, DatabaseTypeOK, AccountTypeOK
<1>8. ASSUME NEW a \in Account, AccountBanEnds(a)
      PROVE  DatabaseTypeOK'
  BY <1>8, <1>a, <1>b, Zenon DEF AccountBanEnds, DatabaseTypeOK, DelayedTypeOK
<1>9. ASSUME NEW ip \in Ip, IpBanEnds(ip)
      PROVE  DatabaseTypeOK'
  BY <1>9, <1>a, <1>b, Zenon DEF IpBanEnds, DatabaseTypeOK, DelayedTypeOK
<1>10. ASSUME NEW s \in Session, Handle(s)
       PROVE  UNCHANGED dbVars
  BY <1>10, Zenon
  DEF Handle, HandleLogonChallenge, HandleReconnectChallenge,
      HandleLogonProofZeroA, HandleLogonProofMatch, HandleLogonProofMismatch,
      HandleReconnectProofMatch, HandleReconnectProofMismatch,
      HandleRealmList, HandleXferStart, HandleXferCancel, RejectInput
<1>11. ASSUME NEW s \in Session, Continue(s)
       PROVE  DatabaseTypeOK'
  BY <1>11, <1>1, <1>2, <1>3, <1>4, <1>5, <1>c, Zenon
  DEF Continue, ChallengeIpBan, ChallengeAccount, LogonProve,
      ReconnectSessionKey, ReconnectProve, Disarm, CountAuthed
<1>12. ASSUME NEW s \in Session, Accept(s) \/ TransportStep(s) \/ Release(s)
       PROVE  UNCHANGED dbVars
  BY <1>12, Zenon
  DEF Accept, Construct, TransportStep, OnClose, PatchReadError, Release,
      Destruct
<1>13. ASSUME Sweep \/ Stop \/ Tick
       PROVE  UNCHANGED dbVars
  BY <1>13, Zenon
  DEF Sweep, SweepBegin, SweepClock, SweepAsk, SweepClose, SweepEnd, Stop,
      Tick
<1>14. ASSUME UNCHANGED vars
       PROVE  UNCHANGED dbVars
  BY <1>14, Zenon DEF vars
<1> QED
  BY <1>c, <1>6, <1>7, <1>8, <1>9, <1>10, <1>11, <1>12, <1>13, <1>14, Zenon
  DEF Next, NetworkStep, DatabaseStep

\* Every step keeps every variable in its type, and references with the sweep.
LEMMA TypeStep ==
  TypeOK /\ Coherent /\ SweepHolds /\ [Next]_vars => TypeOK' /\ SweepHolds'
<1> SUFFICES ASSUME TypeOK, Coherent, SweepHolds, [Next]_vars
             PROVE  TypeOK' /\ SweepHolds'
  OBVIOUS
<1> DEFINE ServerTypeOK ==
      /\ clock \in 0 .. MaxClock
      /\ registry \subseteq Session
      /\ sweep \in {"sleeping", "holding", "asking", "stopped"}
      /\ refs \subseteq Session
      /\ todo \subseteq refs
      /\ closing \subseteq refs
      /\ now \in 0 .. MaxClock
      /\ inTime \subseteq Session
           Server == ServerTypeOK /\ SweepHolds
<1> Server
  BY DEF TypeOK
<1> SUFFICES Server'
  BY SocketTypeStep, DatabaseTypeStep DEF TypeOK
<1> USE DEF SweepHolds
<1>1. CASE \E s \in Session : Accept(s) \/ TransportStep(s) \/ Release(s)
  BY <1>1 DEF Accept, TransportStep, Release, serverVars
<1>2. CASE \E s \in Session : NetworkStep(s)
  BY <1>2, Zenon DEF NetworkStep, serverVars
<1>3. CASE SweepBegin
  BY <1>3 DEF SweepBegin, EntriesKept, Lockable
<1>4. CASE SweepClock
  BY <1>4 DEF SweepClock
<1>5. ASSUME NEW s \in Session, SweepAsk(s)
      PROVE  Server'
  BY <1>5 DEF SweepAsk
<1>6. ASSUME NEW s \in Session, SweepClose(s)
      PROVE  Server'
  BY <1>6 DEF SweepClose
<1>7. CASE SweepEnd
  BY <1>7, TimeAssumption DEF SweepEnd
<1>8. CASE Stop
  BY <1>8 DEF Stop
<1>9. CASE Tick
  BY <1>9, TimeAssumption DEF Tick
<1>10. CASE DatabaseStep \/ UNCHANGED vars
  BY <1>10 DEF DatabaseStep, vars, serverVars
<1> HIDE DEF Server
<1> QED
  BY <1>1, <1>2, <1>3, <1>4, <1>5, <1>6, <1>7, <1>8, <1>9, <1>10
  DEF Next, Sweep

(***************************************************************************)
(* The invariant the other proofs about AuthServer build on.               *)
(***************************************************************************)

Base == TypeOK /\ Coherent /\ SweepHolds /\ Keys

\* An empty server over any database satisfies it.
LEMMA BaseInit ==
  Init => Base
<1> SUFFICES ASSUME Init PROVE Base
  OBVIOUS
<1>1. DatabaseTypeOK
  <2>1. /\ published = [a \in Account |-> {sessionkey[a]} \ {NoKey}]
        /\ sessionkey \in [Account -> {NoKey, OldKey}]
        /\ rows \in SUBSET Account
        /\ lastIp \in [Account -> Ip]
    BY DEF Init, DatabaseInit
  <2>2. AccountTypeOK
    BY <2>1 DEF AccountTypeOK, Key
  <2>3. DelayedTypeOK /\ QueueTypeOK
    BY DEF Init, DatabaseInit, DelayedTypeOK, QueueTypeOK
  <2> QED  BY <2>2, <2>3 DEF DatabaseTypeOK
<1>2. SocketTypeOK
  <2>1. LifeTypeOK /\ CloseTypeOK /\ PatchTypeOK
    BY DEF Init, SocketInit, LifeTypeOK, CloseTypeOK, PatchTypeOK, Cause
  <2>2. ClaimTypeOK
    BY DEF Init, SocketInit, ClaimTypeOK, SEC_PLAYER, SEC_ADMINISTRATOR
  <2>3. HandlerTypeOK
    BY DEF Init, SocketInit, HandlerTypeOK, Position, Status
  <2> QED  BY <2>1, <2>2, <2>3 DEF SocketTypeOK
<1>3. TypeOK /\ SweepHolds
  BY <1>1, <1>2, TimeAssumption DEF Init, TypeOK, SweepHolds
<1>4. Coherent
  BY DEF Init, SocketInit, Coherent
<1>5. Keys
  BY KeyAssumption DEF Init, DatabaseInit, SocketInit, Keys
<1> QED  BY <1>3, <1>4, <1>5 DEF Base

\* It holds in every reachable state.
THEOREM BaseInvariance == Spec => []Base
<1>1. Base /\ [Next]_vars => Base'
  BY TypeStep, CoherentStep, KeysStep DEF Base
<1> QED  BY BaseInit, <1>1, PTL DEF Spec

\* No handler of any session, in any interleaving with the sweeps, the delay
\* thread and the other sessions, takes a variable out of its type: the
\* security level is clamped, the queue holds well-formed statements, what is
\* published is a key.
THEOREM TypeCorrect == Spec => []TypeOK
<1>1. Base => TypeOK
  BY DEF Base
<1> QED  BY BaseInvariance, <1>1, PTL

\* A client told that its logon or reconnect succeeded finds the row of its
\* account published, for any number of sessions and accounts.
THEOREM SuccessPublished == Spec => []SuccessIsPublished
<1>1. Base => SuccessIsPublished
  BY DEF Base, Keys, Issued, SuccessIsPublished
<1> QED  BY BaseInvariance, <1>1, PTL

\* The key of an authenticated session was issued to its account, however the
\* reconnect that read it interleaved with logons that replaced it.
THEOREM AuthedKeyIssued == Spec => []AuthedKeyWasIssued
<1>1. Base => AuthedKeyWasIssued
  BY DEF Base, Keys, Issued, AuthedKeyWasIssued
<1> QED  BY BaseInvariance, <1>1, PTL

\* A key in the table belongs to a client that has its proof, once the handler
\* that published it has returned on an open session.
THEOREM PublishedKeyProven == Spec => []PublishedKeyIsProven
<1>1. Base => PublishedKeyIsProven
  BY DEF Base, Keys, PublishedKeyIsProven
<1> QED  BY BaseInvariance, <1>1, PTL
=============================================================================

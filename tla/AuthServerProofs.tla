-------------------------- MODULE AuthServerProofs --------------------------
(***************************************************************************)
(* What follows from Base, for every set of sessions and accounts.         *)
(* AuthServer implements AuthSession: what a client was told belongs to    *)
(* the state of its session, and every step is, to the client, silence,    *)
(* one reply or one grant.  And every step keeps what locked accounts,     *)
(* patch offers and deadlines need.                                        *)
(***************************************************************************)
EXTENDS AuthRefinement, AuthStepProofs

(***************************************************************************)
(* What a client was told.                                                 *)
(***************************************************************************)

\* The client was challenged and nothing else.
Asked(s) == sent[s] # {} /\ sent[s] \subseteq Challenges

\* A handler that may still refuse has told nothing or the challenge; an open
\* authenticated session was welcomed.
Told ==
  \A s \in Session :
    /\ pc[s] \in {"ip_ban", "account", "account_ban", "session_key"} =>
         sent[s] = {}
    /\ status[s] \in {"LOGON_PROOF", "RECON_PROOF"} /\ ~closed[s] => Asked(s)
    /\ pc[s] \in {"publish", "prove", "re_publish", "re_prove"} => Asked(s)
    /\ status[s] = "AUTHED" /\ ~closed[s] => sent[s] \cap Welcomes # {}

(***************************************************************************)
(* What a client can see of a step.                                        *)
(***************************************************************************)

GrantsKept == \A s \in Session : Granted(s)' = Granted(s)

Silence ==
  /\ UNCHANGED <<sent, sessionkey>>
  /\ \A s \in Session : closed[s] => closed'[s]
  /\ GrantsKept

Says(s, replies) ==
  /\ ~closed[s]
  /\ \E r \in replies : sent' = [sent EXCEPT ![s] = @ \cup {r}]
  /\ UNCHANGED <<closed, sessionkey>>
  /\ GrantsKept

Answers(s) ==
  \/ sent[s] = {} /\ Says(s, Challenges)
  \/ (sent[s] = {} \/ Asked(s)) /\ ~Granted(s) /\ Says(s, Refusals)
  \/ Asked(s) /\ ~Granted(s) /\ Says(s, Offers)
  \/ Asked(s) /\ Granted(s) /\ Says(s, Welcomes)
  \/ sent[s] \cap Welcomes # {} /\ Says(s, Lists)

Writes(s) ==
  /\ Asked(s) /\ ~Granted(s)
  /\ Granted(s)' = TRUE
  /\ \A t \in Session \ {s} : Granted(t)' = Granted(t)
  /\ \/ UNCHANGED sessionkey
     \/ \E a \in Account : sessionkey' = [sessionkey EXCEPT ![a] = s]
  /\ UNCHANGED <<sent, closed>>

Visible == Silence \/ \E s \in Session : Answers(s) \/ Writes(s)

\* Every step is silence, one answer in its place or one grant.
LEMMA VisibleStep ==
  TypeOK /\ Coherent /\ Told /\ [Next]_vars => Visible
<1> SUFFICES ASSUME TypeOK, Coherent, Told, [Next]_vars PROVE Visible
  OBVIOUS
<1>a. /\ pc \in [Session -> Position] /\ status \in [Session -> Status]
      /\ sent \in [Session -> SUBSET Reply]
      /\ closed \in [Session -> BOOLEAN]
      /\ login \in [Session -> Account \cup {NoLogin}]
      /\ sessionkey \in [Account -> Key \cup {NoKey}]
  BY DEF TypeOK, SocketTypeOK, DatabaseTypeOK, AccountTypeOK, ClaimTypeOK,
     HandlerTypeOK, CloseTypeOK
<1>b. /\ {"FAIL_BANNED", "FAIL_SUSPENDED", "FAIL_UNKNOWN_ACCOUNT",
          "WRONG_PASSWORD", "VERSION_INVALID"} \subseteq Refusals
      /\ \A b : LockedAccountResultForBuild(b) \in Refusals
  BY DEF Refusals, Reply, Challenges, Welcomes, Offers, Lists,
     LockedAccountResultForBuild
<1> USE <1>a
    DEF Coherent, Told, closeVars, claimVars, socketVars, dbVars, accountVars,
        GoTo, SetStatus, Send, Refuse, Fail, CloseConnection, Dispatch, At,
        Granted, GrantsKept, Visible, Silence, Says
<1>1. ASSUME NEW s \in Session, LogonChallengeStep(s)
      PROVE  Visible
  <2>1. ASSUME NEW a \in Account, NEW b \in Build, HandleLogonChallenge(s, a, b)
        PROVE  Silence
    BY <2>1 DEF HandleLogonChallenge
  <2>2. CASE ChallengeIpBan(s)
    BY <2>2, <1>b DEF ChallengeIpBan, Answers
  <2>3. CASE ChallengeAccount(s)
    BY <2>3, <1>b DEF ChallengeAccount, Answers
  <2>4. CASE ChallengeAccountBan(s)
    BY <2>4, <1>b DEF ChallengeAccountBan, Answers, Challenges
  <2> QED
    BY <1>1, <2>1, <2>2, <2>3, <2>4, Zenon DEF LogonChallengeStep
<1>2. ASSUME NEW s \in Session, LogonProofStep(s)
      PROVE  Visible
  <2>1. CASE HandleLogonProofZeroA(s)
    BY <2>1 DEF HandleLogonProofZeroA
  <2>2. CASE HandleLogonProofMatch(s)
    BY <2>2, <1>b DEF HandleLogonProofMatch, OfferPatch, Answers, Offers
  <2>3. CASE LogonPublish(s)
    BY <2>3 DEF LogonPublish, PublishLogon, Writes
  <2>4. CASE LogonProve(s)
    BY <2>4 DEF LogonProve, Answers, Welcomes
  <2>5. CASE HandleLogonProofMismatch(s)
    BY <2>5, <1>b DEF HandleLogonProofMismatch, Answers
  <2>6. CASE FailedLoginIncrement(s)
    BY <2>6 DEF FailedLoginIncrement
  <2>7. CASE FailedLoginCheck(s)
    BY <2>7 DEF FailedLoginCheck
  <2> QED
    BY <1>2, <2>1, <2>2, <2>3, <2>4, <2>5, <2>6, <2>7, Zenon DEF LogonProofStep
<1>3. ASSUME NEW s \in Session, ReconnectStep(s)
      PROVE  Visible
  <2>1. ASSUME NEW a \in Account, NEW b \in Build, HandleReconnectChallenge(s, a, b)
        PROVE  Silence
    BY <2>1 DEF HandleReconnectChallenge
  <2>2. CASE ReconnectSessionKey(s)
    BY <2>2 DEF ReconnectSessionKey, Answers, Challenges
  <2>3. CASE HandleReconnectProofMatch(s)
    BY <2>3 DEF HandleReconnectProofMatch
  <2>4. CASE HandleReconnectProofMismatch(s)
    BY <2>4 DEF HandleReconnectProofMismatch
  <2>5. CASE ReconnectPublish(s)
    BY <2>5 DEF ReconnectPublish, Writes
  <2>6. CASE ReconnectProve(s)
    BY <2>6 DEF ReconnectProve, Answers, Welcomes
  <2> QED
    BY <1>3, <2>1, <2>2, <2>3, <2>4, <2>5, <2>6, Zenon DEF ReconnectStep
<1>4. ASSUME NEW s \in Session, OtherStep(s)
      PROVE  Visible
  <2>1. CASE Disarm(s)
    BY <2>1 DEF Disarm
  <2>2. CASE CountAuthed(s)
    BY <2>2 DEF CountAuthed
  <2>3. CASE HandleRealmList(s)
    BY <2>3 DEF HandleRealmList, Answers, Lists
  <2>4. CASE HandleXferStart(s)
    BY <2>4 DEF HandleXferStart
  <2>5. CASE Accept(s)
    BY <2>5 DEF Accept, Construct
  <2>6. CASE Release(s)
    BY <2>6 DEF Release, Destruct
  <2> QED
    BY <1>4, <2>1, <2>2, <2>3, <2>4, <2>5, <2>6, Zenon DEF OtherStep
<1>5. ASSUME NEW a \in Account, DeleteAccount(a), UNCHANGED socketVars
      PROVE  Visible
  BY <1>5 DEF DeleteAccount
<1>6. ASSUME Quiet
      PROVE  Visible
  BY <1>6 DEF Quiet
<1> QED
  BY <1>1, <1>2, <1>3, <1>4, <1>5, <1>6, NextCases, Zenon

-----------------------------------------------------------------------------
(* What a client was told belongs to the state of its session.             *)

\* Every step keeps replies and state together.
LEMMA ToldStep ==
  TypeOK /\ Coherent /\ Told /\ [Next]_vars => Told'
<1> SUFFICES ASSUME TypeOK, Coherent, Told, [Next]_vars PROVE Told'
  OBVIOUS
<1>a. /\ pc \in [Session -> Position] /\ status \in [Session -> Status]
      /\ sent \in [Session -> SUBSET Reply]
      /\ closed \in [Session -> BOOLEAN]
  BY DEF TypeOK, SocketTypeOK, HandlerTypeOK, CloseTypeOK
<1> USE <1>a
    DEF Coherent, Told, Asked, closeVars, socketVars, GoTo, SetStatus, Send,
        Refuse, Fail, CloseConnection, Dispatch, At
<1>1. ASSUME NEW s \in Session, LogonChallengeStep(s)
      PROVE  Told'
  <2>1. ASSUME NEW a \in Account, NEW b \in Build, HandleLogonChallenge(s, a, b)
        PROVE  Told'
    BY <2>1 DEF HandleLogonChallenge
  <2>2. CASE ChallengeIpBan(s)
    BY <2>2 DEF ChallengeIpBan
  <2>3. CASE ChallengeAccount(s)
    <3>1. /\ pc[s] = "account" /\ UNCHANGED <<status, closed>>
          /\ \/ /\ pc' = [pc EXCEPT ![s] = "idle"]
                /\ \E r : Send(s, r)
             \/ /\ pc' = [pc EXCEPT ![s] = "account_ban"]
                /\ UNCHANGED sent
      BY <2>3, Zenon DEF ChallengeAccount
    <3>2. sent[s] = {} /\ status[s] = "CLOSED"
      BY <3>1, Zenon
    <3>3. /\ pc'[s] \in {"idle", "account_ban"} /\ status'[s] = "CLOSED"
          /\ pc'[s] = "account_ban" => sent'[s] = {}
      BY <3>1, <3>2
    <3>4. \A t \in Session \ {s} :
            /\ pc'[t] = pc[t] /\ status'[t] = status[t]
            /\ sent'[t] = sent[t] /\ closed'[t] = closed[t]
      BY <3>1
    <3> QED  BY <3>3, <3>4
  <2>4. CASE ChallengeAccountBan(s)
    <3>1. /\ pc[s] = "account_ban" /\ pc' = [pc EXCEPT ![s] = "idle"]
          /\ UNCHANGED closed
          /\ \/ UNCHANGED status
             \/ /\ status' = [status EXCEPT ![s] = "LOGON_PROOF"]
                /\ Send(s, "CHALLENGE")
          /\ \E r : Send(s, r)
      BY <2>4, Zenon DEF ChallengeAccountBan
    <3>2. sent[s] = {} /\ status[s] = "CLOSED"
      BY <3>1, Zenon
    <3>3. Send(s, "CHALLENGE") /\ ~closed[s] => sent'[s] = {"CHALLENGE"}
      BY <3>2
    <3>4. Send(s, "CHALLENGE") /\ ~closed[s] => Asked(s)'
      BY <3>3 DEF Challenges
    <3>5. /\ pc'[s] = "idle"
          /\ status'[s] \in {"CLOSED", "LOGON_PROOF"}
          /\ status'[s] = "LOGON_PROOF" /\ ~closed'[s] => Asked(s)'
      BY <3>1, <3>2, <3>4
    <3>6. \A t \in Session \ {s} :
            /\ pc'[t] = pc[t] /\ status'[t] = status[t]
            /\ sent'[t] = sent[t] /\ closed'[t] = closed[t]
      BY <3>1
    <3> QED  BY <3>5, <3>6
  <2> QED
    BY <1>1, <2>1, <2>2, <2>3, <2>4, Zenon DEF LogonChallengeStep
<1>2. ASSUME NEW s \in Session, LogonProofStep(s)
      PROVE  Told'
  <2>1. CASE HandleLogonProofZeroA(s)
    BY <2>1 DEF HandleLogonProofZeroA
  <2>2. CASE HandleLogonProofMatch(s)
    BY <2>2 DEF HandleLogonProofMatch, OfferPatch
  <2>3. CASE LogonPublish(s)
    BY <2>3 DEF LogonPublish
  <2>4. CASE LogonProve(s)
    BY <2>4 DEF LogonProve, Welcomes
  <2>5. CASE HandleLogonProofMismatch(s)
    BY <2>5 DEF HandleLogonProofMismatch
  <2>6. CASE FailedLoginIncrement(s)
    BY <2>6 DEF FailedLoginIncrement
  <2>7. CASE FailedLoginCheck(s)
    BY <2>7 DEF FailedLoginCheck
  <2> QED
    BY <1>2, <2>1, <2>2, <2>3, <2>4, <2>5, <2>6, <2>7, Zenon DEF LogonProofStep
<1>3. ASSUME NEW s \in Session, ReconnectStep(s)
      PROVE  Told'
  <2>1. ASSUME NEW a \in Account, NEW b \in Build, HandleReconnectChallenge(s, a, b)
        PROVE  Told'
    BY <2>1 DEF HandleReconnectChallenge
  <2>2. CASE ReconnectSessionKey(s)
    <3>1. /\ pc[s] = "session_key" /\ pc' = [pc EXCEPT ![s] = "idle"]
          /\ \/ /\ closed' = [closed EXCEPT ![s] = TRUE]
                /\ UNCHANGED <<status, sent>>
             \/ /\ status' = [status EXCEPT ![s] = "RECON_PROOF"]
                /\ Send(s, "RECONNECT_CHALLENGE")
                /\ UNCHANGED closed
      BY <2>2, Zenon DEF ReconnectSessionKey
    <3>2. sent[s] = {} /\ status[s] = "CLOSED"
      BY <3>1, Zenon
    <3>3. Send(s, "RECONNECT_CHALLENGE") /\ ~closed[s] => sent'[s] = {"RECONNECT_CHALLENGE"}
      BY <3>2
    <3>4. Send(s, "RECONNECT_CHALLENGE") /\ ~closed[s] => Asked(s)'
      BY <3>3 DEF Challenges
    <3>5. /\ pc'[s] = "idle"
          /\ status'[s] \in {"CLOSED", "RECON_PROOF"}
          /\ status'[s] = "RECON_PROOF" /\ ~closed'[s] => Asked(s)'
      BY <3>1, <3>2, <3>4
    <3>6. \A t \in Session \ {s} :
            /\ pc'[t] = pc[t] /\ status'[t] = status[t]
            /\ sent'[t] = sent[t] /\ closed'[t] = closed[t]
      BY <3>1
    <3> QED  BY <3>5, <3>6
  <2>3. CASE HandleReconnectProofMatch(s)
    BY <2>3 DEF HandleReconnectProofMatch
  <2>4. CASE HandleReconnectProofMismatch(s)
    BY <2>4 DEF HandleReconnectProofMismatch
  <2>5. CASE ReconnectPublish(s)
    BY <2>5 DEF ReconnectPublish
  <2>6. CASE ReconnectProve(s)
    BY <2>6 DEF ReconnectProve, Welcomes
  <2> QED
    BY <1>3, <2>1, <2>2, <2>3, <2>4, <2>5, <2>6, Zenon DEF ReconnectStep
<1>4. ASSUME NEW s \in Session, OtherStep(s)
      PROVE  Told'
  <2>1. CASE Disarm(s)
    BY <2>1 DEF Disarm
  <2>2. CASE CountAuthed(s)
    BY <2>2 DEF CountAuthed
  <2>3. CASE HandleRealmList(s)
    BY <2>3 DEF HandleRealmList
  <2>4. CASE HandleXferStart(s)
    BY <2>4 DEF HandleXferStart
  <2>5. CASE Accept(s)
    BY <2>5 DEF Accept, Construct
  <2>6. CASE Release(s)
    BY <2>6 DEF Release, Destruct
  <2> QED
    BY <1>4, <2>1, <2>2, <2>3, <2>4, <2>5, <2>6, Zenon DEF OtherStep
<1>5. ASSUME NEW a \in Account, DeleteAccount(a), UNCHANGED socketVars
      PROVE  Told'
  BY <1>5 DEF DeleteAccount
<1>6. ASSUME Quiet
      PROVE  Told'
  BY <1>6 DEF Quiet
<1> QED
  BY <1>1, <1>2, <1>3, <1>4, <1>5, <1>6, NextCases, Zenon

-----------------------------------------------------------------------------
(* The refinement.                                                         *)

\* The verdict read off the replies of one session.
LEMMA StageOf ==
  ASSUME NEW s \in Session
  PROVE  /\ sent[s] = {} => Stage(s) = "none"
         /\ Asked(s) => Stage(s) = "asked"
         /\ sent[s] \cap Welcomes # {} => Stage(s) = "welcomed"
BY DEF Stage, Asked, Challenges, Welcomes, Offers, Refusals, Lists

\* What one more reply makes of the verdict.
LEMMA StageStep ==
  ASSUME sent \in [Session -> SUBSET Reply],
         NEW s \in Session, NEW r \in Reply,
         sent' = [sent EXCEPT ![s] = @ \cup {r}]
  PROVE  /\ sent[s] = {} /\ r \in Challenges => Stage(s)' = "asked"
         /\ (sent[s] = {} \/ Asked(s)) /\ r \in Refusals =>
              Stage(s)' = "refused"
         /\ Asked(s) /\ r \in Offers => Stage(s)' = "patch"
         /\ Asked(s) /\ r \in Welcomes => Stage(s)' = "welcomed"
         /\ r \in Lists => Stage(s)' = Stage(s)
         /\ r \notin Lists => (sent'[s] \cap Lists) = (sent[s] \cap Lists)
<1>1. sent'[s] = sent[s] \cup {r}
  OBVIOUS
<1> QED
  BY <1>1 DEF Stage, Asked, Challenges, Welcomes, Offers, Refusals, Lists

\* Silence ends sessions or nothing; an answer and a grant are what AuthSession
\* says of them.
LEMMA ClientStep ==
  ASSUME TypeOK, TypeOK', Visible
  PROVE  [Client!Next]_(Client!vars)
<1>a. /\ sent \in [Session -> SUBSET Reply]
      /\ closed \in [Session -> BOOLEAN]
      /\ closed' \in [Session -> BOOLEAN]
  BY DEF TypeOK, SocketTypeOK, HandlerTypeOK, CloseTypeOK
<1> DEFINE stages == [s \in Session |-> Stage(s)]
           grants == [s \in Session |-> Granted(s)]
           lists == [s \in Session |-> sent[s] \cap Lists # {}]
<1>1. ASSUME Silence
      PROVE  Client!Next
  <2>1. UNCHANGED <<stages, lists, sessionkey>>
    BY <1>1 DEF Silence, Stage
  <2>2. UNCHANGED grants
    BY <1>1 DEF Silence, GrantsKept
  <2>3. Client!End
    BY <1>a, <1>1, <2>1, <2>2 DEF Client!End, Silence
  <2> QED  BY <2>3 DEF Client!Next
<1>2. ASSUME NEW s \in Session, Writes(s)
      PROVE  Client!Next
  <2>1. UNCHANGED <<stages, lists, closed>>
    BY <1>2 DEF Writes, Stage
  <2>2. grants' = [grants EXCEPT ![s] = TRUE] /\ ~grants[s]
    BY <1>2 DEF Writes
  <2>3. stages[s] = "asked"
    BY <1>2, StageOf DEF Writes
  <2>4. Client!Grant(s)
    BY <1>2, <2>1, <2>2, <2>3 DEF Client!Grant, Writes
  <2> QED  BY <2>4 DEF Client!Next
<1>3. ASSUME NEW s \in Session, Answers(s)
      PROVE  Client!Next
  <2>1. PICK r \in Reply :
          /\ ~closed[s]
          /\ sent' = [sent EXCEPT ![s] = @ \cup {r}]
          /\ UNCHANGED <<closed, sessionkey>>
          /\ GrantsKept
          /\ \/ sent[s] = {} /\ r \in Challenges
             \/ (sent[s] = {} \/ Asked(s)) /\ ~Granted(s) /\ r \in Refusals
             \/ Asked(s) /\ ~Granted(s) /\ r \in Offers
             \/ Asked(s) /\ Granted(s) /\ r \in Welcomes
             \/ sent[s] \cap Welcomes # {} /\ r \in Lists
    <3>1. /\ Challenges \subseteq Reply /\ Refusals \subseteq Reply
          /\ Offers \subseteq Reply /\ Welcomes \subseteq Reply
          /\ Lists \subseteq Reply
      BY DEF Challenges, Refusals, Offers, Welcomes, Lists, Reply
    <3> QED  BY <1>3, <3>1, Zenon DEF Answers, Says
  <2>2. UNCHANGED grants
    BY <2>1 DEF GrantsKept
  <2>3. stages' = [stages EXCEPT ![s] = Stage(s)']
    BY <1>a, <2>1 DEF Stage
  <2>4. r \notin Lists => UNCHANGED lists
    BY <1>a, <2>1
  <2> USE <1>a, <2>1, <2>2, <2>3, <2>4, StageOf, StageStep
  <2>5. CASE sent[s] = {} /\ r \in Challenges
    <3>1. Client!Ask(s)
      BY <2>5 DEF Client!Ask, Client!Tell, Challenges, Lists
    <3> QED  BY <3>1 DEF Client!Next
  <2>6. CASE (sent[s] = {} \/ Asked(s)) /\ ~Granted(s) /\ r \in Refusals
    <3>1. Client!Refuse(s)
      BY <2>6 DEF Client!Refuse, Client!Tell, Refusals
    <3> QED  BY <3>1 DEF Client!Next
  <2>7. CASE Asked(s) /\ ~Granted(s) /\ r \in Offers
    <3>1. Client!Offer(s)
      BY <2>7 DEF Client!Offer, Client!Tell, Offers, Lists
    <3> QED  BY <3>1 DEF Client!Next
  <2>8. CASE Asked(s) /\ Granted(s) /\ r \in Welcomes
    <3>1. Client!Welcome(s)
      BY <2>8 DEF Client!Welcome, Client!Tell, Welcomes, Lists
    <3> QED  BY <3>1 DEF Client!Next
  <2>9. CASE sent[s] \cap Welcomes # {} /\ r \in Lists
    <3>1. lists' = [lists EXCEPT ![s] = TRUE]
      BY <2>9
    <3>2. Client!List(s)
      BY <2>9, <3>1 DEF Client!List
    <3> QED  BY <3>2 DEF Client!Next
  <2> QED  BY <2>1, <2>5, <2>6, <2>7, <2>8, <2>9
<1> QED  BY <1>1, <1>2, <1>3, Zenon DEF Visible

\* A server with no session is one whose clients were told nothing.
LEMMA ClientInit ==
  Init => Client!Init /\ Told
<1> SUFFICES ASSUME Init PROVE Client!Init /\ Told
  OBVIOUS
<1>1. \A s \in Session : /\ sent[s] = {} /\ ~closed[s]
                         /\ status[s] = "CHALLENGE" /\ pc[s] = "idle"
  BY DEF Init, SocketInit
<1>2. \A s \in Session : /\ Stage(s) = "none" /\ ~Granted(s)
                         /\ sent[s] \cap Lists = {}
  BY <1>1, StageOf DEF Granted
<1>3. closed = [s \in Session |-> FALSE]
  BY DEF Init, SocketInit
<1>4. sessionkey \in [Account -> {NoKey, OldKey}]
  BY DEF Init, DatabaseInit
<1>5. /\ [s \in Session |-> Granted(s)] = [s \in Session |-> FALSE]
      /\ [s \in Session |-> sent[s] \cap Lists # {}] =
           [s \in Session |-> FALSE]
  <2>1. \A s \in Session : /\ Granted(s) = FALSE
                           /\ (sent[s] \cap Lists # {}) = FALSE
    BY <1>2 DEF Granted
  <2> QED  BY <2>1
<1>6. Client!Init
  <2>1. [s \in Session |-> Stage(s)] = [s \in Session |-> "none"]
    BY <1>2
  <2> QED  BY <1>3, <1>4, <1>5, <2>1, Zenon DEF Client!Init
<1>7. Told
  BY <1>1, Zenon DEF Told
<1> QED  BY <1>6, <1>7

\* The server keeps its promises to every client, for any number of sessions
\* and accounts and whatever the threads, the transport and the database do.
THEOREM Refinement == Spec => KeepsPromises
<1>1. Base /\ Told /\ [Next]_vars => Told'
  BY ToldStep DEF Base
<1>2. Spec => []Told
  BY BaseInvariance, ClientInit, <1>1, PTL DEF Spec
<1>3. Base /\ Base' /\ Told /\ [Next]_vars => [Client!Next]_(Client!vars)
  BY VisibleStep, ClientStep DEF Base
<1> QED
  BY BaseInvariance, ClientInit, <1>2, <1>3, PTL
  DEF Spec, KeepsPromises, Client!Spec

(***************************************************************************)
(* Locked accounts.                                                        *)
(***************************************************************************)

\* A session that passed the check of a locked account comes from the address
\* that account is locked to.
LockedAddress ==
  \A s \in Session :
    /\ status[s] = "LOGON_PROOF" \/ pc[s] \in {"account_ban", "publish"}
    /\ login[s] \in Locked
    => lastIp[login[s]] = AddressOf[s]

\* Every step keeps the address of a locked account and of the sessions that
\* passed its check.
LEMMA LockedAddressStep ==
  TypeOK /\ Coherent /\ LockedAddress /\ [Next]_vars =>
    LockedAddress' /\ \A a \in Locked : lastIp'[a] = lastIp[a]
<1> DEFINE Kept == LockedAddress' /\ \A a \in Locked : lastIp'[a] = lastIp[a]
<1> SUFFICES ASSUME TypeOK, Coherent, LockedAddress, [Next]_vars PROVE Kept
  OBVIOUS
<1>a. /\ pc \in [Session -> Position] /\ status \in [Session -> Status]
      /\ login \in [Session -> Account \cup {NoLogin}]
      /\ lastIp \in [Account -> Ip]
  BY DEF TypeOK, SocketTypeOK, DatabaseTypeOK, AccountTypeOK, ClaimTypeOK,
     HandlerTypeOK
<1> USE <1>a, SessionAssumption
    DEF LockedAddress, Coherent, claimVars, socketVars, dbVars, accountVars,
        GoTo, SetStatus, Refuse, Fail, Dispatch, At
<1>1. ASSUME NEW s \in Session, LogonChallengeStep(s)
      PROVE  Kept
  <2>1. ASSUME NEW a \in Account, NEW b \in Build, HandleLogonChallenge(s, a, b)
        PROVE  Kept
    BY <2>1 DEF HandleLogonChallenge
  <2>2. CASE ChallengeIpBan(s)
    BY <2>2, Zenon DEF ChallengeIpBan
  <2>3. CASE ChallengeAccount(s)
    BY <2>3, Zenon DEF ChallengeAccount, LockedOut
  <2>4. CASE ChallengeAccountBan(s)
    <3>1. /\ pc[s] = "account_ban" /\ pc' = [pc EXCEPT ![s] = "idle"]
          /\ \/ UNCHANGED status
             \/ status' = [status EXCEPT ![s] = "LOGON_PROOF"]
          /\ UNCHANGED <<login, lastIp>>
      BY <2>4, Zenon DEF ChallengeAccountBan
    <3> QED  BY <3>1
  <2> QED
    BY <1>1, <2>1, <2>2, <2>3, <2>4, Zenon DEF LogonChallengeStep
<1>2. ASSUME NEW s \in Session, LogonProofStep(s)
      PROVE  Kept
  <2>1. CASE HandleLogonProofZeroA(s)
    BY <2>1, Zenon DEF HandleLogonProofZeroA
  <2>2. CASE HandleLogonProofMatch(s)
    <3>1. /\ status[s] = "LOGON_PROOF"
          /\ \E p \in {"idle", "patch_disarm", "publish"} :
               pc' = [pc EXCEPT ![s] = p]
          /\ \E st \in {"CLOSED", "PATCH"} :
               status' = [status EXCEPT ![s] = st]
          /\ UNCHANGED <<login, lastIp>>
      BY <2>2, Zenon DEF HandleLogonProofMatch, OfferPatch
    <3> QED  BY <3>1
  <2>3. CASE LogonPublish(s)
    <3>1. /\ pc[s] = "publish" /\ UNCHANGED <<status, login>>
          /\ \E p \in {"idle", "prove"} : pc' = [pc EXCEPT ![s] = p]
          /\ \/ UNCHANGED lastIp
             \/ lastIp' = [lastIp EXCEPT ![login[s]] = AddressOf[s]]
      BY <2>3, Zenon DEF LogonPublish, PublishLogon
    <3>2. /\ status[s] = "CLOSED"
          /\ login[s] \in Locked => lastIp[login[s]] = AddressOf[s]
      BY <3>1, Zenon
    <3>3. \A a \in Locked : lastIp'[a] = lastIp[a]
      BY <3>1, <3>2, Zenon
    <3>4. /\ pc'[s] \in {"idle", "prove"} /\ status'[s] = "CLOSED"
          /\ \A t \in Session \ {s} : pc'[t] = pc[t]
      BY <3>1, <3>2
    <3> QED  BY <3>1, <3>3, <3>4
  <2>4. CASE LogonProve(s)
    BY <2>4, Zenon DEF LogonProve
  <2>5. CASE HandleLogonProofMismatch(s)
    BY <2>5, Zenon DEF HandleLogonProofMismatch
  <2>6. CASE FailedLoginIncrement(s)
    BY <2>6, Zenon DEF FailedLoginIncrement
  <2>7. CASE FailedLoginCheck(s)
    BY <2>7, Zenon DEF FailedLoginCheck
  <2> QED
    BY <1>2, <2>1, <2>2, <2>3, <2>4, <2>5, <2>6, <2>7, Zenon DEF LogonProofStep
<1>3. ASSUME NEW s \in Session, ReconnectStep(s)
      PROVE  Kept
  <2>1. ASSUME NEW a \in Account, NEW b \in Build, HandleReconnectChallenge(s, a, b)
        PROVE  Kept
    BY <2>1 DEF HandleReconnectChallenge
  <2>2. CASE ReconnectSessionKey(s)
    BY <2>2, Zenon DEF ReconnectSessionKey
  <2>3. CASE HandleReconnectProofMatch(s)
    BY <2>3, Zenon DEF HandleReconnectProofMatch
  <2>4. CASE HandleReconnectProofMismatch(s)
    BY <2>4, Zenon DEF HandleReconnectProofMismatch
  <2>5. CASE ReconnectPublish(s)
    BY <2>5, Zenon DEF ReconnectPublish
  <2>6. CASE ReconnectProve(s)
    BY <2>6, Zenon DEF ReconnectProve
  <2> QED
    BY <1>3, <2>1, <2>2, <2>3, <2>4, <2>5, <2>6, Zenon DEF ReconnectStep
<1>4. ASSUME NEW s \in Session, OtherStep(s)
      PROVE  Kept
  <2>1. CASE Disarm(s)
    BY <2>1, Zenon DEF Disarm
  <2>2. CASE CountAuthed(s)
    BY <2>2, Zenon DEF CountAuthed
  <2>3. CASE HandleRealmList(s)
    BY <2>3, Zenon DEF HandleRealmList
  <2>4. CASE HandleXferStart(s)
    <3>1. /\ pc[s] = "idle" /\ UNCHANGED <<login, lastIp>>
          /\ UNCHANGED pc \/ pc' = [pc EXCEPT ![s] = "idle"]
          /\ \E st \in {"CLOSED", "PATCH"} :
               status' = [status EXCEPT ![s] = st]
      BY <2>4, Zenon DEF HandleXferStart
    <3> QED  BY <3>1
  <2>5. CASE Accept(s)
    BY <2>5, Zenon DEF Accept, Construct
  <2>6. CASE Release(s)
    BY <2>6, Zenon DEF Release, Destruct
  <2> QED
    BY <1>4, <2>1, <2>2, <2>3, <2>4, <2>5, <2>6, Zenon DEF OtherStep
<1>5. ASSUME NEW a \in Account, DeleteAccount(a), UNCHANGED socketVars
      PROVE  Kept
  BY <1>5 DEF DeleteAccount
<1>6. ASSUME Quiet
      PROVE  Kept
  BY <1>6 DEF Quiet
<1> QED
  BY <1>1, <1>2, <1>3, <1>4, <1>5, <1>6, NextCases, Zenon

(***************************************************************************)
(* Patch offers.                                                           *)
(***************************************************************************)

\* The archive of an offer; no handler runs on once a transfer has begun.
Archive ==
  /\ OnePatchTransfer
  /\ \A s \in Session :
       /\ artifact[s] => ShouldPatch(PatchEnabled, ForcedBuilds, build[s])
       /\ pc[s] # "idle" => ~streaming[s]

\* A step of one session leaves the archives of the others alone.
LEMMA ArchiveOfOne ==
  ASSUME Archive, NEW s \in Session, UNCHANGED <<build, life>>,
         \A t \in Session \ {s} :
           /\ pc'[t] = pc[t] /\ status'[t] = status[t]
           /\ artifact'[t] = artifact[t] /\ streaming'[t] = streaming[t],
         artifact'[s] <=> status'[s] = "PATCH",
         streaming'[s] => status'[s] = "CLOSED" /\ pc'[s] = "idle",
         artifact'[s] \/ streaming'[s] =>
           ShouldPatch(PatchEnabled, ForcedBuilds, build[s])
  PROVE  Archive'
<1>1. \A t \in Session \ {s} :
        /\ status'[t] = "PATCH" /\ life'[t] = "alive" => artifact'[t]
        /\ artifact'[t] => status'[t] = "PATCH"
        /\ streaming'[t] => ~artifact'[t] /\ status'[t] = "CLOSED"
        /\ artifact'[t] \/ streaming'[t] =>
             ShouldPatch(PatchEnabled, ForcedBuilds, build'[t])
        /\ pc'[t] # "idle" => ~streaming'[t]
  BY DEF Archive, OnePatchTransfer
<1>2. /\ status'[s] = "PATCH" /\ life'[s] = "alive" => artifact'[s]
      /\ artifact'[s] => status'[s] = "PATCH"
      /\ streaming'[s] => ~artifact'[s] /\ status'[s] = "CLOSED"
      /\ artifact'[s] \/ streaming'[s] =>
           ShouldPatch(PatchEnabled, ForcedBuilds, build'[s])
      /\ pc'[s] # "idle" => ~streaming'[s]
  BY Zenon
<1> QED  BY <1>1, <1>2, Zenon DEF Archive, OnePatchTransfer

\* Every step keeps an offered archive with its offer.
LEMMA ArchiveStep ==
  TypeOK /\ Coherent /\ Archive /\ [Next]_vars => Archive'
<1> SUFFICES ASSUME TypeOK, Coherent, Archive, [Next]_vars PROVE Archive'
  OBVIOUS
<1>a. /\ pc \in [Session -> Position] /\ status \in [Session -> Status]
      /\ build \in [Session -> Build \cup {0}]
      /\ artifact \in [Session -> BOOLEAN]
      /\ streaming \in [Session -> BOOLEAN]
      /\ life \in [Session -> {"new", "alive", "destroyed"}]
  BY DEF TypeOK, SocketTypeOK, LifeTypeOK, ClaimTypeOK, PatchTypeOK,
     HandlerTypeOK
<1>b. ASSUME NEW s \in Session,
             UNCHANGED <<artifact, streaming, build, life>>,
             ~artifact[s], ~streaming[s], status'[s] # "PATCH",
             \A t \in Session \ {s} : pc'[t] = pc[t] /\ status'[t] = status[t]
      PROVE  Archive'
  BY <1>b, ArchiveOfOne, Zenon
<1> USE <1>a
    DEF Archive, OnePatchTransfer, Coherent, claimVars, patchVars, lifeVars,
        socketVars, GoTo, SetStatus, Refuse, Fail, Dispatch, At
<1>c. ASSUME NEW s \in Session, pc[s] # "idle", status[s] = "CLOSED"
      PROVE  ~artifact[s] /\ ~streaming[s]
  BY <1>c, Zenon
<1>1. ASSUME NEW s \in Session, LogonChallengeStep(s)
      PROVE  Archive'
  <2>1. ASSUME NEW a \in Account, NEW b \in Build, HandleLogonChallenge(s, a, b)
        PROVE  Archive'
    BY <2>1 DEF HandleLogonChallenge
  <2>2. CASE ChallengeIpBan(s)
    <3>1. /\ UNCHANGED <<status, artifact, streaming, build, life>>
          /\ \E q : pc' = [pc EXCEPT ![s] = q]
          /\ pc[s] = "ip_ban"
      BY <2>2, Zenon DEF ChallengeIpBan
    <3>2. status[s] = "CLOSED" /\ ~artifact[s] /\ ~streaming[s]
      BY <1>c, <3>1, Zenon
    <3> HIDE DEF Archive, OnePatchTransfer, Coherent
    <3>3. /\ status'[s] # "PATCH"
          /\ \A t \in Session \ {s} :
               pc'[t] = pc[t] /\ status'[t] = status[t]
      BY <3>1, <3>2
    <3> QED  BY <1>b, <3>1, <3>2, <3>3, Zenon
  <2>3. CASE ChallengeAccount(s)
    BY <2>3, Zenon DEF ChallengeAccount
  <2>4. CASE ChallengeAccountBan(s)
    <3>1. /\ UNCHANGED <<artifact, streaming, build, life>>
          /\ \E q : pc' = [pc EXCEPT ![s] = q]
          /\ \/ UNCHANGED status
             \/ status' = [status EXCEPT ![s] = "LOGON_PROOF"]
          /\ pc[s] = "account_ban"
      BY <2>4, Zenon DEF ChallengeAccountBan
    <3>2. status[s] = "CLOSED" /\ ~artifact[s] /\ ~streaming[s]
      BY <1>c, <3>1, Zenon
    <3> HIDE DEF Archive, OnePatchTransfer, Coherent
    <3>3. /\ status'[s] # "PATCH"
          /\ \A t \in Session \ {s} :
               pc'[t] = pc[t] /\ status'[t] = status[t]
      BY <3>1, <3>2
    <3> QED  BY <1>b, <3>1, <3>2, <3>3, Zenon
  <2> QED
    BY <1>1, <2>1, <2>2, <2>3, <2>4, Zenon DEF LogonChallengeStep
<1>2. ASSUME NEW s \in Session, LogonProofStep(s)
      PROVE  Archive'
  <2>1. CASE HandleLogonProofZeroA(s)
    BY <2>1, Zenon DEF HandleLogonProofZeroA
  <2>2. CASE HandleLogonProofMatch(s)
    <3>1. /\ UNCHANGED <<streaming, build, life>>
          /\ \E q : pc' = [pc EXCEPT ![s] = q]
          /\ pc[s] = "idle" /\ status[s] = "LOGON_PROOF"
      BY <2>2, Zenon DEF HandleLogonProofMatch, OfferPatch
    <3>2. \/ /\ UNCHANGED artifact
             /\ status' = [status EXCEPT ![s] = "CLOSED"]
          \/ /\ artifact' = [artifact EXCEPT ![s] = TRUE]
             /\ status' = [status EXCEPT ![s] = "PATCH"]
             /\ ShouldPatch(PatchEnabled, ForcedBuilds, build[s])
      BY <2>2, Zenon DEF HandleLogonProofMatch, OfferPatch
    <3>3. ~artifact[s] /\ ~streaming[s]
      BY <3>1
    <3>4. CASE /\ UNCHANGED artifact
               /\ status' = [status EXCEPT ![s] = "CLOSED"]
      <4> HIDE DEF Archive, OnePatchTransfer, Coherent
      <4>1. /\ status'[s] # "PATCH"
            /\ \A t \in Session \ {s} :
                 pc'[t] = pc[t] /\ status'[t] = status[t]
        BY <3>1, <3>4
      <4> QED  BY <1>b, <3>1, <3>3, <3>4, <4>1, Zenon
    <3>5. CASE /\ artifact' = [artifact EXCEPT ![s] = TRUE]
               /\ status' = [status EXCEPT ![s] = "PATCH"]
               /\ ShouldPatch(PatchEnabled, ForcedBuilds, build[s])
      <4> HIDE DEF Archive, OnePatchTransfer, Coherent
      <4>1. /\ status'[s] = "PATCH" /\ artifact'[s] /\ ~streaming'[s]
            /\ \A t \in Session \ {s} :
                 /\ pc'[t] = pc[t] /\ status'[t] = status[t]
                 /\ artifact'[t] = artifact[t] /\ streaming'[t] = streaming[t]
        BY <3>1, <3>3, <3>5
      <4> QED  BY <3>1, <3>5, <4>1, ArchiveOfOne, Zenon
    <3> QED  BY <3>2, <3>4, <3>5, Zenon
  <2>3. CASE LogonPublish(s)
    BY <2>3, Zenon DEF LogonPublish
  <2>4. CASE LogonProve(s)
    BY <2>4, Zenon DEF LogonProve
  <2>5. CASE HandleLogonProofMismatch(s)
    BY <2>5, Zenon DEF HandleLogonProofMismatch
  <2>6. CASE FailedLoginIncrement(s)
    BY <2>6, Zenon DEF FailedLoginIncrement
  <2>7. CASE FailedLoginCheck(s)
    BY <2>7, Zenon DEF FailedLoginCheck
  <2> QED
    BY <1>2, <2>1, <2>2, <2>3, <2>4, <2>5, <2>6, <2>7, Zenon DEF LogonProofStep
<1>3. ASSUME NEW s \in Session, ReconnectStep(s)
      PROVE  Archive'
  <2>1. ASSUME NEW a \in Account, NEW b \in Build, HandleReconnectChallenge(s, a, b)
        PROVE  Archive'
    BY <2>1 DEF HandleReconnectChallenge
  <2>2. CASE ReconnectSessionKey(s)
    <3>1. /\ UNCHANGED <<artifact, streaming, build, life>>
          /\ \E q : pc' = [pc EXCEPT ![s] = q]
          /\ \/ UNCHANGED status
             \/ status' = [status EXCEPT ![s] = "RECON_PROOF"]
          /\ pc[s] = "session_key"
      BY <2>2, Zenon DEF ReconnectSessionKey
    <3>2. status[s] = "CLOSED" /\ ~artifact[s] /\ ~streaming[s]
      BY <1>c, <3>1, Zenon
    <3> HIDE DEF Archive, OnePatchTransfer, Coherent
    <3>3. /\ status'[s] # "PATCH"
          /\ \A t \in Session \ {s} :
               pc'[t] = pc[t] /\ status'[t] = status[t]
      BY <3>1, <3>2
    <3> QED  BY <1>b, <3>1, <3>2, <3>3, Zenon
  <2>3. CASE HandleReconnectProofMatch(s)
    BY <2>3, Zenon DEF HandleReconnectProofMatch
  <2>4. CASE HandleReconnectProofMismatch(s)
    BY <2>4, Zenon DEF HandleReconnectProofMismatch
  <2>5. CASE ReconnectPublish(s)
    BY <2>5, Zenon DEF ReconnectPublish
  <2>6. CASE ReconnectProve(s)
    BY <2>6, Zenon DEF ReconnectProve
  <2> QED
    BY <1>3, <2>1, <2>2, <2>3, <2>4, <2>5, <2>6, Zenon DEF ReconnectStep
<1>4. ASSUME NEW s \in Session, OtherStep(s)
      PROVE  Archive'
  <2>1. CASE Disarm(s)
    BY <2>1 DEF Disarm
  <2>2. CASE CountAuthed(s)
    BY <2>2, Zenon DEF CountAuthed
  <2>3. CASE HandleRealmList(s)
    BY <2>3, Zenon DEF HandleRealmList
  <2>4. CASE HandleXferStart(s)
    <3>1. /\ UNCHANGED <<build, life>>
          /\ artifact' = [artifact EXCEPT ![s] = FALSE]
          /\ pc[s] = "idle" /\ status[s] = "PATCH" /\ life[s] = "alive"
      BY <2>4, Zenon DEF HandleXferStart
    <3>2. /\ artifact[s] /\ ~streaming[s]
          /\ ShouldPatch(PatchEnabled, ForcedBuilds, build[s])
      BY <3>1
    <3>3. /\ status' = [status EXCEPT ![s] = "CLOSED"]
          /\ \/ /\ streaming' = [streaming EXCEPT ![s] = TRUE]
                /\ UNCHANGED pc
             \/ /\ UNCHANGED streaming
                /\ pc' = [pc EXCEPT ![s] = "idle"]
      BY <2>4, <3>2 DEF HandleXferStart
    <3>4. /\ status'[s] = "CLOSED" /\ ~artifact'[s] /\ pc'[s] = "idle"
          /\ \A t \in Session \ {s} :
               /\ pc'[t] = pc[t] /\ status'[t] = status[t]
               /\ artifact'[t] = artifact[t] /\ streaming'[t] = streaming[t]
      <4> HIDE DEF Archive, OnePatchTransfer, Coherent
      <4> QED  BY <3>1, <3>3
    <3> HIDE DEF Archive, OnePatchTransfer, Coherent
    <3> QED  BY <3>1, <3>2, <3>4, ArchiveOfOne, Zenon
  <2>5. CASE Accept(s)
    BY <2>5, Zenon DEF Accept, Construct
  <2>6. CASE Release(s)
    BY <2>6, Zenon DEF Release, Destruct
  <2> QED
    BY <1>4, <2>1, <2>2, <2>3, <2>4, <2>5, <2>6, Zenon DEF OtherStep
<1>5. ASSUME NEW a \in Account, DeleteAccount(a), UNCHANGED socketVars
      PROVE  Archive'
  BY <1>5, Zenon DEF DeleteAccount
<1>6. ASSUME Quiet
      PROVE  Archive'
  BY <1>6 DEF Quiet
<1> QED
  BY <1>1, <1>2, <1>3, <1>4, <1>5, <1>6, NextCases, Zenon

(***************************************************************************)
(* Deadlines.                                                              *)
(***************************************************************************)

\* A sweep only knows sessions that exist, the clock it read has passed the
\* deadline of the one it is about to close, and a disarmed deadline stays
\* disarmed.
Deadlines ==
  /\ now <= clock
  /\ \A s \in registry \cup refs \cup inTime : life[s] # "new"
  /\ \A s \in closing : deadline[s] <= now
  /\ \A s \in Session : closeCause[s] = "deadline" =>
       deadline[s] <= clock /\ life[s] # "new"
  /\ \A s \in inTime : ~active[s]
  /\ InTimeIsExempt


\* A step of a session's network thread leaves its deadline and its life alone
\* and closes the session, disarms it or does neither.
LEMMA NetworkEffect ==
  ASSUME NEW s \in Session, NetworkStep(s)
  PROVE  /\ UNCHANGED <<lifeVars, serverVars>>
         /\ \/ UNCHANGED <<closeVars, inTime>>
            \/ /\ \E c \in {"handler", "cancel", "rejected"} :
                    CloseConnection(s, c)
               /\ UNCHANGED inTime
            \/ Disarm(s)
<1> DEFINE Cases == \/ UNCHANGED closeVars
                    \/ CloseConnection(s, "handler")
                    \/ CloseConnection(s, "cancel")
                    \/ CloseConnection(s, "rejected")
<1>1. ASSUME Handle(s)
      PROVE  UNCHANGED lifeVars /\ pc[s] = "idle" /\ Cases
  BY <1>1, Zenon
  DEF Handle, HandleLogonChallenge, HandleReconnectChallenge,
      HandleLogonProofZeroA, HandleLogonProofMatch, HandleLogonProofMismatch,
      HandleReconnectProofMatch, HandleReconnectProofMismatch,
      HandleRealmList, HandleXferStart, HandleXferCancel, RejectInput, Fail,
      Dispatch
<1>2. ASSUME Continue(s)
      PROVE  UNCHANGED lifeVars
  BY <1>2, Zenon
  DEF Continue, ChallengeIpBan, ChallengeAccount, ChallengeAccountBan,
      LogonPublish, LogonProve, FailedLoginIncrement, FailedLoginCheck,
      ReconnectSessionKey, ReconnectPublish, ReconnectProve, Disarm,
      CountAuthed
<1>3. ASSUME Continue(s)
      PROVE  Disarm(s) \/ Cases
  BY <1>3, Zenon
  DEF Continue, ChallengeIpBan, ChallengeAccount, ChallengeAccountBan,
      LogonPublish, LogonProve, FailedLoginIncrement, FailedLoginCheck,
      ReconnectSessionKey, ReconnectPublish, ReconnectProve, CountAuthed, Fail
<1>4. ASSUME Continue(s)
      PROVE  Disarm(s) \/ pc[s] \notin {"disarm", "patch_disarm"}
  BY <1>4, Zenon
  DEF Continue, ChallengeIpBan, ChallengeAccount, ChallengeAccountBan,
      LogonPublish, LogonProve, FailedLoginIncrement, FailedLoginCheck,
      ReconnectSessionKey, ReconnectPublish, ReconnectProve, CountAuthed, At
<1>5. pc[s] \notin {"disarm", "patch_disarm"} => UNCHANGED inTime
  BY Zenon DEF NetworkStep
<1> QED  BY <1>1, <1>2, <1>3, <1>4, <1>5, Zenon DEF NetworkStep

\* Every step keeps what sweeps know of deadlines.
LEMMA DeadlinesStep ==
  TypeOK /\ Coherent /\ Deadlines /\ [Next]_vars => Deadlines'
<1> SUFFICES ASSUME TypeOK, Coherent, Deadlines, [Next]_vars PROVE Deadlines'
  OBVIOUS
<1>a. /\ active \in [Session -> BOOLEAN]
      /\ closed \in [Session -> BOOLEAN]
      /\ held \in [Session -> BOOLEAN]
      /\ closeCause \in [Session -> Cause]
      /\ deadline \in [Session -> Nat]
      /\ life \in [Session -> {"new", "alive", "destroyed"}]
      /\ clock \in Nat /\ now \in Nat
      /\ registry \subseteq Session /\ refs \subseteq Session
      /\ todo \subseteq refs /\ closing \subseteq refs
      /\ inTime \subseteq Session
  BY TimeAssumption
  DEF TypeOK, SocketTypeOK, LifeTypeOK, CloseTypeOK, HandlerTypeOK
<1>b. \A s \in Session : life[s] = "new" => ~held[s]
  BY DEF Coherent
<1> USE <1>a DEF Deadlines, InTimeIsExempt, closeVars, lifeVars, serverVars
<1>1. ASSUME NEW s \in Session, NetworkStep(s)
      PROVE  Deadlines'
  <2>0. UNCHANGED <<life, held, deadline, clock, registry, refs, closing, now>>
    BY <1>1, NetworkEffect
  <2>1. CASE UNCHANGED <<closeVars, inTime>>
    BY <2>0, <2>1
  <2>2. ASSUME NEW c \in {"handler", "cancel", "rejected"},
               CloseConnection(s, c), UNCHANGED inTime
        PROVE  Deadlines'
    BY <2>0, <2>2 DEF CloseConnection
  <2>3. CASE Disarm(s)
    <3>1. /\ active' = [active EXCEPT ![s] = FALSE]
          /\ UNCHANGED <<closed, closeCause>>
          /\ pc[s] \in {"disarm", "patch_disarm"}
      BY <2>3, Zenon DEF Disarm, At
    <3>2. inTime' = IF clock < deadline[s] THEN inTime \cup {s} ELSE inTime
      BY <1>1, <3>1, Zenon DEF NetworkStep
    <3>3. life[s] # "new"
      BY <3>1, Zenon DEF Coherent
    <3> QED  BY <2>0, <3>1, <3>2, <3>3
  <2> QED  BY <1>1, <2>1, <2>2, <2>3, NetworkEffect, Zenon
<1>2. ASSUME NEW s \in Session, TransportStep(s)
      PROVE  Deadlines'
  <2>1. CASE OnClose(s)
    BY <1>2, <2>1 DEF TransportStep, OnClose
  <2>2. CASE PatchReadError(s)
    BY <1>2, <2>2 DEF TransportStep, PatchReadError
  <2> QED  BY <1>2, <2>1, <2>2, Zenon DEF TransportStep
<1>3. ASSUME NEW s \in Session, Accept(s)
      PROVE  Deadlines'
  BY <1>3, TimeAssumption DEF Accept, Construct
<1>4. ASSUME NEW s \in Session, Release(s)
      PROVE  Deadlines'
  BY <1>4 DEF Release, Destruct
<1>5. ASSUME SweepBegin
      PROVE  Deadlines'
  BY <1>5, <1>b DEF SweepBegin, EntriesKept, Lockable, socketVars
<1>6. ASSUME SweepClock
      PROVE  Deadlines'
  BY <1>6 DEF SweepClock, socketVars
<1>7. ASSUME NEW s \in Session, SweepAsk(s)
      PROVE  Deadlines'
  BY <1>7 DEF SweepAsk, Expired, socketVars
<1>8. ASSUME NEW s \in Session, SweepClose(s)
      PROVE  Deadlines'
  BY <1>8 DEF SweepClose, CloseConnection
<1>9. ASSUME SweepEnd
      PROVE  Deadlines'
  BY <1>9 DEF SweepEnd, socketVars
<1>10. ASSUME Stop
       PROVE  Deadlines'
  BY <1>10 DEF Stop
<1>11. ASSUME Tick
       PROVE  Deadlines'
  BY <1>11 DEF Tick, socketVars
<1>12. ASSUME DatabaseStep \/ UNCHANGED vars
       PROVE  Deadlines'
  <2>1. UNCHANGED <<socketVars, serverVars, inTime>>
    BY <1>12, Zenon DEF DatabaseStep, vars
  <2> QED  BY <2>1 DEF socketVars
<1> QED
  BY <1>1, <1>2, <1>3, <1>4, <1>5, <1>6, <1>7, <1>8, <1>9, <1>10, <1>11,
     <1>12, Zenon
  DEF Next, Sweep

(***************************************************************************)
(* The invariant, and what follows from it.                                *)
(***************************************************************************)

IInv == Base /\ LockedAddress /\ Archive /\ Deadlines

\* An empty server over any database satisfies the invariant.
LEMMA InitIInv ==
  Init => IInv
<1> SUFFICES ASSUME Init PROVE IInv
  OBVIOUS
<1>1. LockedAddress
  BY Zenon DEF Init, SocketInit, LockedAddress
<1>2. Archive
  BY DEF Init, SocketInit, Archive, OnePatchTransfer
<1>3. Deadlines
  BY DEF Init, SocketInit, Deadlines, InTimeIsExempt
<1> QED  BY <1>1, <1>2, <1>3, BaseInit DEF IInv

\* The invariant holds in every reachable state.
THEOREM Invariance == Spec => []IInv
<1>1. Base /\ LockedAddress /\ Archive /\ Deadlines /\ [Next]_vars =>
        LockedAddress' /\ Archive' /\ Deadlines'
  BY LockedAddressStep, ArchiveStep, DeadlinesStep DEF Base
<1> QED  BY InitIInv, BaseInvariance, <1>1, PTL DEF Spec, IInv

\* An account locked to an address keeps it for ever: no logon that passed the
\* check of the challenge writes another one.
THEOREM LockedAddressIsKept == Spec => LockedAddressKept
<1>1. IInv /\ [Next]_vars => [\A a \in Locked : lastIp'[a] = lastIp[a]]_vars
  BY LockedAddressStep DEF IInv, Base
<1> QED  BY Invariance, <1>1, PTL DEF Spec, LockedAddressKept

\* At most one transfer per session, from the archive that was offered, and
\* none for a session that may authenticate.
THEOREM OnePatchPerSession == Spec => []OnePatchTransfer
<1>1. IInv => OnePatchTransfer
  BY DEF IInv, Archive
<1> QED  BY Invariance, <1>1, PTL

\* A session disarmed before its deadline is never closed by the deadline.
THEOREM InTimeExempt == Spec => []InTimeIsExempt
<1>1. IInv => InTimeIsExempt
  BY DEF IInv, Deadlines
<1> QED  BY Invariance, <1>1, PTL
=============================================================================

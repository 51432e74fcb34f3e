-------------------------- MODULE AuthCountProofs --------------------------
(***************************************************************************)
(* What AuthServer counts, for every set of sessions and accounts: its     *)
(* connections and authenticated sessions, and the wrong passwords of an   *)
(* account, of which the table and the queue of the delay thread know.     *)
(***************************************************************************)
EXTENDS AuthStepProofs, FiniteSetTheorems

(***************************************************************************)
(* Which steps count wrong passwords.                                      *)
(***************************************************************************)

Failed(s) == "WRONG_PASSWORD" \in sent[s]

\* A handler that counts a failed login has told the client so, and the client
\* told so is at the end of its session.
Failing ==
  \A s \in Session :
    /\ pc[s] \in {"failed_inc", "failed_read"} => Failed(s)
    /\ Failed(s) => /\ status[s] = "CLOSED"
                      /\ pc[s] \in {"idle", "failed_inc", "failed_read"}

\* What was answered stays answered, for the same account, and is counted once.
Remembered ==
  \A s \in Session : Failed(s) =>
    /\ Failed(s)' /\ login'[s] = login[s]
    /\ pc[s] # "failed_inc" => pc'[s] # "failed_inc"

NobodyFailed == \A s \in Session : Failed(s)' => Failed(s)

\* Every step keeps it so, and only a proof that does not match answers.
LEMMA FailingStep ==
  ASSUME TypeOK, Coherent, Failing, [Next]_vars
  PROVE  /\ Failing' /\ Remembered
         /\ NobodyFailed \/ \E s \in Session : HandleLogonProofMismatch(s)
<1> DEFINE Kept == /\ Failing' /\ Remembered
                   /\ \/ NobodyFailed
                      \/ \E t \in Session : HandleLogonProofMismatch(t)
<1>a. /\ pc \in [Session -> Position] /\ status \in [Session -> Status]
      /\ login \in [Session -> Account \cup {NoLogin}]
      /\ sent \in [Session -> SUBSET Reply]
  BY DEF TypeOK, SocketTypeOK, ClaimTypeOK, HandlerTypeOK
<1>b. \A s \in Session : status[s] = "CHALLENGE" => ~Failed(s)
  BY Zenon DEF Coherent, Failed
<1> USE <1>a, <1>b
    DEF Failing, Failed, Remembered, NobodyFailed, claimVars, socketVars, GoTo,
        SetStatus, Send, Refuse, Fail, Dispatch, At
<1>1. ASSUME NEW s \in Session, LogonChallengeStep(s)
      PROVE  Kept
  <2>1. ASSUME NEW a \in Account, NEW b \in Build, HandleLogonChallenge(s, a, b)
        PROVE  Kept
    BY <2>1 DEF HandleLogonChallenge
  <2>2. CASE ChallengeIpBan(s)
    <3>1. /\ pc[s] = "ip_ban" /\ UNCHANGED <<login, status>>
          /\ \E p \in {"idle", "account"} : pc' = [pc EXCEPT ![s] = p]
      BY <2>2, Zenon DEF ChallengeIpBan
    <3>2. \/ UNCHANGED sent
          \/ sent' = [sent EXCEPT ![s] =
                        IF closed[s] THEN @ ELSE @ \cup {"FAIL_BANNED"}]
      BY <2>2, Zenon DEF ChallengeIpBan
    <3>3. \A t \in Session : Failed(t)' <=> Failed(t)
      BY <3>2
    <3> HIDE DEF Failed
    <3> QED  BY <3>1, <3>3
  <2>3. CASE ChallengeAccount(s)
    BY <2>3, LockedResultIsReply, SMTT(15) DEF ChallengeAccount
  <2>4. CASE ChallengeAccountBan(s)
    BY <2>4, SMTT(15) DEF ChallengeAccountBan
  <2> QED
    BY <1>1, <2>1, <2>2, <2>3, <2>4, Zenon DEF LogonChallengeStep
<1>2. ASSUME NEW s \in Session, LogonProofStep(s)
      PROVE  Kept
  <2>1. CASE HandleLogonProofZeroA(s)
    BY <2>1 DEF HandleLogonProofZeroA
  <2>2. CASE HandleLogonProofMatch(s)
    <3>1. /\ status[s] = "LOGON_PROOF"
          /\ \E p \in {"idle", "patch_disarm", "publish"} :
               pc' = [pc EXCEPT ![s] = p]
          /\ \E st \in {"CLOSED", "PATCH"} :
               status' = [status EXCEPT ![s] = st]
          /\ UNCHANGED login
      BY <2>2, Zenon DEF HandleLogonProofMatch, OfferPatch
    <3>2. \/ UNCHANGED sent
          \/ \E r \in {"VERSION_UPDATE", "VERSION_INVALID"} :
               sent' = [sent EXCEPT ![s] = IF closed[s] THEN @ ELSE @ \cup {r}]
      BY <2>2, Zenon DEF HandleLogonProofMatch, OfferPatch
    <3>3. \A t \in Session : Failed(t)' <=> Failed(t)
      BY <3>2
    <3> HIDE DEF Failed
    <3> QED  BY <3>1, <3>3
  <2>3. CASE LogonPublish(s)
    BY <2>3 DEF LogonPublish
  <2>4. CASE LogonProve(s)
    BY <2>4 DEF LogonProve
  <2>5. CASE HandleLogonProofMismatch(s)
    <3>1. Failing' /\ Remembered
      BY <2>5 DEF HandleLogonProofMismatch
    <3> QED  BY <2>5, <3>1, Zenon
  <2>6. CASE FailedLoginIncrement(s)
    BY <2>6 DEF FailedLoginIncrement
  <2>7. CASE FailedLoginCheck(s)
    BY <2>7 DEF FailedLoginCheck
  <2> QED
    BY <1>2, <2>1, <2>2, <2>3, <2>4, <2>5, <2>6, <2>7, Zenon DEF LogonProofStep
<1>3. ASSUME NEW s \in Session, ReconnectStep(s)
      PROVE  Kept
  <2>1. ASSUME NEW a \in Account, NEW b \in Build, HandleReconnectChallenge(s, a, b)
        PROVE  Kept
    BY <2>1 DEF HandleReconnectChallenge
  <2>2. CASE ReconnectSessionKey(s)
    BY <2>2 DEF ReconnectSessionKey
  <2>3. CASE HandleReconnectProofMatch(s)
    BY <2>3 DEF HandleReconnectProofMatch
  <2>4. CASE HandleReconnectProofMismatch(s)
    BY <2>4 DEF HandleReconnectProofMismatch
  <2>5. CASE ReconnectPublish(s)
    BY <2>5 DEF ReconnectPublish
  <2>6. CASE ReconnectProve(s)
    BY <2>6 DEF ReconnectProve
  <2> QED
    BY <1>3, <2>1, <2>2, <2>3, <2>4, <2>5, <2>6, Zenon DEF ReconnectStep
<1>4. ASSUME NEW s \in Session, OtherStep(s)
      PROVE  Kept
  <2>1. CASE Disarm(s)
    BY <2>1 DEF Disarm
  <2>2. CASE CountAuthed(s)
    BY <2>2 DEF CountAuthed
  <2>3. CASE HandleRealmList(s)
    BY <2>3 DEF HandleRealmList
  <2>4. CASE HandleXferStart(s)
    BY <2>4 DEF HandleXferStart
  <2>5. CASE Accept(s)
    BY <2>5 DEF Accept, Construct
  <2>6. CASE Release(s)
    BY <2>6 DEF Release, Destruct
  <2> QED
    BY <1>4, <2>1, <2>2, <2>3, <2>4, <2>5, <2>6, Zenon DEF OtherStep
<1>5. ASSUME NEW a \in Account, DeleteAccount(a), UNCHANGED socketVars
      PROVE  Kept
  BY <1>5
<1>6. ASSUME Quiet
      PROVE  Kept
  BY <1>6 DEF Quiet
<1> QED
  BY <1>1, <1>2, <1>3, <1>4, <1>5, <1>6, NextCases, Zenon

\* The steps that take part in the counting of failed logins.
LEMMA QueueSteps ==
  ASSUME [Next]_vars
  PROVE  \/ UNCHANGED <<delayQueue, failedLogins>>
         \/ \E s \in Session : \/ LogonPublish(s) \/ ChallengeAccountBan(s)
                                \/ FailedLoginIncrement(s)
                                \/ FailedLoginCheck(s)
         \/ DelayThread
<1> DEFINE Same == UNCHANGED <<delayQueue, failedLogins>>
<1>1. UNCHANGED dbVars => Same
  BY DEF dbVars
<1>2. UNCHANGED delayedVars /\ UNCHANGED delayQueue => Same
  BY DEF delayedVars
<1> HIDE DEF Same
<1>3. ASSUME NEW s \in Session, Handle(s)
      PROVE  UNCHANGED dbVars
  BY <1>3, Zenon
  DEF Handle, HandleLogonChallenge, HandleReconnectChallenge,
      HandleLogonProofZeroA, HandleLogonProofMatch, HandleLogonProofMismatch,
      HandleReconnectProofMatch, HandleReconnectProofMismatch,
      HandleRealmList, HandleXferStart, HandleXferCancel, RejectInput
<1>4. ASSUME NEW s \in Session, Continue(s)
      PROVE  \/ Same
             \/ LogonPublish(s) \/ ChallengeAccountBan(s)
             \/ FailedLoginIncrement(s) \/ FailedLoginCheck(s)
  <2>1. ReconnectPublish(s) => Same
    BY <1>2, Zenon DEF ReconnectPublish
  <2> QED
    BY <1>1, <1>4, <2>1, Zenon
    DEF Continue, ChallengeIpBan, ChallengeAccount, LogonProve,
        ReconnectSessionKey, ReconnectProve, Disarm, CountAuthed
<1>5. ASSUME NEW s \in Session,
             Accept(s) \/ TransportStep(s) \/ Release(s) \/ SweepClose(s)
             \/ SweepAsk(s)
      PROVE  UNCHANGED dbVars
  BY <1>5, Zenon
  DEF Accept, Construct, TransportStep, OnClose, PatchReadError, Release,
      Destruct, SweepClose, SweepAsk
<1>6. ASSUME SweepBegin \/ SweepClock \/ SweepEnd \/ Stop \/ Tick
             \/ UNCHANGED vars
      PROVE  UNCHANGED dbVars
  BY <1>6, Zenon DEF SweepBegin, SweepClock, SweepEnd, Stop, Tick, vars
<1>7. ASSUME DatabaseStep
      PROVE  Same \/ DelayThread
  BY <1>7 DEF DatabaseStep, DeleteAccount, AccountBanEnds, IpBanEnds,
     delayedVars, Same
<1>8. Same => UNCHANGED <<delayQueue, failedLogins>>
  BY DEF Same
<1> QED
  BY <1>1, <1>3, <1>4, <1>5, <1>6, <1>7, <1>8, Zenon
  DEF Next, NetworkStep, Sweep

(***************************************************************************)
(* Which steps count sessions.                                             *)
(***************************************************************************)

\* The live sessions, and those among them that s_authed counts.
Alive == {s \in Session : life[s] = "alive"}
AuthedSessions == {s \in Session : /\ life[s] = "alive"
                                   /\ status[s] = "AUTHED"
                                   /\ pc[s] = "idle"}

\* A handler runs on a session the transport holds: the destructor never
\* overtakes it.
Busy == \A s \in Session : pc[s] # "idle" => life[s] = "alive" /\ held[s]

\* A step that neither counter and none of the counted takes part in.
Uncounted ==
  /\ UNCHANGED <<connections, authed>>
  /\ \A s \in Session :
       /\ life'[s] = "alive" <=> life[s] = "alive"
       /\ status'[s] = "AUTHED" /\ pc'[s] = "idle" <=>
            status[s] = "AUTHED" /\ pc[s] = "idle"

\* Only the construction and the destruction of a session, and the end of a
\* proof, take part in the counting; a handler keeps its session alive.
LEMMA CountingSteps ==
  ASSUME TypeOK, Coherent, Busy, [Next]_vars
  PROVE  /\ Busy'
         /\ \/ Uncounted
            \/ \E s \in Session : CountAuthed(s) \/ Accept(s) \/ Release(s)
<1> DEFINE Kept ==
      /\ Busy'
      /\ Uncounted \/ \E t \in Session : CountAuthed(t) \/ Accept(t) \/ Release(t)
<1>a. /\ pc \in [Session -> Position] /\ status \in [Session -> Status]
      /\ life \in [Session -> {"new", "alive", "destroyed"}]
      /\ held \in [Session -> BOOLEAN]
  BY DEF TypeOK, SocketTypeOK, LifeTypeOK, HandlerTypeOK
<1>b. \A s \in Session :
        /\ pc[s] \in {"disarm", "count"} => status[s] = "AUTHED"
        /\ pc[s] \notin {"idle", "disarm", "count"} => status[s] # "AUTHED"
        /\ life[s] = "new" => status[s] # "AUTHED"
  BY <1>a DEF Coherent, Position
<1> USE <1>a, <1>b
    DEF Busy, Uncounted, lifeVars, socketVars, GoTo, SetStatus, Refuse, Fail,
        Dispatch, At
<1>1. ASSUME NEW s \in Session, LogonChallengeStep(s)
      PROVE  Kept
  <2>1. ASSUME NEW a \in Account, NEW b \in Build, HandleLogonChallenge(s, a, b)
        PROVE  Kept
    BY <2>1 DEF HandleLogonChallenge
  <2>2. CASE ChallengeIpBan(s)
    BY <2>2 DEF ChallengeIpBan
  <2>3. CASE ChallengeAccount(s)
    BY <2>3 DEF ChallengeAccount
  <2>4. CASE ChallengeAccountBan(s)
    <3>1. /\ pc[s] = "account_ban" /\ pc' = [pc EXCEPT ![s] = "idle"]
          /\ UNCHANGED <<life, held, connections, authed>>
          /\ \/ UNCHANGED status
             \/ status' = [status EXCEPT ![s] = "LOGON_PROOF"]
      BY <2>4, Zenon DEF ChallengeAccountBan
    <3> QED  BY <3>1
  <2> QED
    BY <1>1, <2>1, <2>2, <2>3, <2>4, Zenon DEF LogonChallengeStep
<1>2. ASSUME NEW s \in Session, LogonProofStep(s)
      PROVE  Kept
  <2>1. CASE HandleLogonProofZeroA(s)
    BY <2>1 DEF HandleLogonProofZeroA
  <2>2. CASE HandleLogonProofMatch(s)
    <3>1. /\ status[s] = "LOGON_PROOF" /\ pc[s] = "idle"
          /\ life[s] = "alive" /\ held[s]
          /\ \E p \in {"idle", "patch_disarm", "publish"} :
               pc' = [pc EXCEPT ![s] = p]
          /\ \E st \in {"CLOSED", "PATCH"} :
               status' = [status EXCEPT ![s] = st]
          /\ UNCHANGED <<life, held, connections, authed>>
      BY <2>2, Zenon DEF HandleLogonProofMatch, OfferPatch
    <3> QED  BY <3>1
  <2>3. CASE LogonPublish(s)
    BY <2>3 DEF LogonPublish
  <2>4. CASE LogonProve(s)
    BY <2>4 DEF LogonProve
  <2>5. CASE HandleLogonProofMismatch(s)
    BY <2>5 DEF HandleLogonProofMismatch
  <2>6. CASE FailedLoginIncrement(s)
    BY <2>6 DEF FailedLoginIncrement
  <2>7. CASE FailedLoginCheck(s)
    BY <2>7 DEF FailedLoginCheck
  <2> QED
    BY <1>2, <2>1, <2>2, <2>3, <2>4, <2>5, <2>6, <2>7, Zenon DEF LogonProofStep
<1>3. ASSUME NEW s \in Session, ReconnectStep(s)
      PROVE  Kept
  <2>1. ASSUME NEW a \in Account, NEW b \in Build, HandleReconnectChallenge(s, a, b)
        PROVE  Kept
    BY <2>1 DEF HandleReconnectChallenge
  <2>2. CASE ReconnectSessionKey(s)
    BY <2>2 DEF ReconnectSessionKey
  <2>3. CASE HandleReconnectProofMatch(s)
    BY <2>3 DEF HandleReconnectProofMatch
  <2>4. CASE HandleReconnectProofMismatch(s)
    BY <2>4 DEF HandleReconnectProofMismatch
  <2>5. CASE ReconnectPublish(s)
    BY <2>5 DEF ReconnectPublish
  <2>6. CASE ReconnectProve(s)
    BY <2>6 DEF ReconnectProve
  <2> QED
    BY <1>3, <2>1, <2>2, <2>3, <2>4, <2>5, <2>6, Zenon DEF ReconnectStep
<1>4. ASSUME NEW s \in Session, OtherStep(s)
      PROVE  Kept
  <2>1. CASE Disarm(s)
    BY <2>1 DEF Disarm
  <2>2. CASE CountAuthed(s)
    <3>1. Busy'
      BY <2>2 DEF CountAuthed
    <3> QED  BY <2>2, <3>1, Zenon
  <2>3. CASE HandleRealmList(s)
    BY <2>3 DEF HandleRealmList
  <2>4. CASE HandleXferStart(s)
    BY <2>4 DEF HandleXferStart
  <2>5. CASE Accept(s)
    <3>1. Busy'
      BY <2>5 DEF Accept, Construct
    <3> QED  BY <2>5, <3>1, Zenon
  <2>6. CASE Release(s)
    <3>1. Busy'
      BY <2>6 DEF Release, Destruct
    <3> QED  BY <2>6, <3>1, Zenon
  <2> QED
    BY <1>4, <2>1, <2>2, <2>3, <2>4, <2>5, <2>6, Zenon DEF OtherStep
<1>5. ASSUME NEW a \in Account, DeleteAccount(a), UNCHANGED socketVars
      PROVE  Kept
  BY <1>5
<1>6. ASSUME Quiet
      PROVE  Kept
  BY <1>6 DEF Quiet
<1> QED
  BY <1>1, <1>2, <1>3, <1>4, <1>5, <1>6, NextCases, Zenon

(***************************************************************************)
(* How often a statement is queued.                                        *)
(***************************************************************************)

Positions(q, x) == {i \in 1 .. Len(q) : q[i] = x}

\* A statement is queued finitely often.
LEMMA PositionsFinite ==
  ASSUME NEW S, NEW q \in Seq(S), NEW x
  PROVE  /\ IsFiniteSet(Positions(q, x))
         /\ Cardinality(Positions(q, x)) \in Nat
<1>1. IsFiniteSet(1 .. Len(q))
  <2>1. 1 \in Int /\ Len(q) \in Int
    OBVIOUS
  <2> QED  BY <2>1, FS_Interval
<1>2. Positions(q, x) \in SUBSET (1 .. Len(q))
  BY DEF Positions
<1> QED  BY <1>1, <1>2, FS_Subset, FS_CardinalityType

\* Appending a statement queues it once more.
LEMMA PositionsAppend ==
  ASSUME NEW S, NEW q \in Seq(S), NEW x, NEW y \in S
  PROVE  Cardinality(Positions(Append(q, y), x)) =
           IF y = x THEN Cardinality(Positions(q, x)) + 1
                    ELSE Cardinality(Positions(q, x))
<1> DEFINE n == Len(q) + 1
<1>1. /\ Len(Append(q, y)) = n /\ n \in Nat /\ Len(q) \in Nat
      /\ \A i \in 1 .. Len(q) : Append(q, y)[i] = q[i]
      /\ Append(q, y)[n] = y
  OBVIOUS
<1>2. n \notin Positions(q, x)
  BY <1>1 DEF Positions
<1>3. CASE y = x
  <2>1. Positions(Append(q, y), x) = Positions(q, x) \cup {n}
    BY <1>1, <1>3 DEF Positions
  <2> QED  BY <1>2, <1>3, <2>1, PositionsFinite, FS_AddElement
<1>4. CASE y # x
  <2>1. Positions(Append(q, y), x) = Positions(q, x)
    BY <1>1, <1>4 DEF Positions
  <2> QED  BY <1>4, <2>1
<1> QED  BY <1>3, <1>4

\* Taking the first statement leaves it queued once less.
LEMMA PositionsTail ==
  ASSUME NEW S, NEW q \in Seq(S), q # <<>>, NEW x
  PROVE  Cardinality(Positions(q, x)) =
           IF Head(q) = x THEN Cardinality(Positions(Tail(q), x)) + 1
                          ELSE Cardinality(Positions(Tail(q), x))
<1> DEFINE P == Positions(Tail(q), x)
           R == Positions(q, x) \ {1}
           f == [i \in P |-> i + 1]
<1>1. /\ Tail(q) \in Seq(S) /\ Len(Tail(q)) = Len(q) - 1
      /\ Len(q) \in Nat /\ Len(q) > 0 /\ Head(q) = q[1]
      /\ \A i \in 1 .. Len(q) - 1 : Tail(q)[i] = q[i + 1]
  OBVIOUS
<1>2. f \in [P -> R] /\ \A i, j \in P : f[i] = f[j] => i = j
  BY <1>1 DEF Positions
<1>3. \A j \in R : \E i \in P : f[i] = j
  <2> SUFFICES ASSUME NEW j \in R PROVE \E i \in P : f[i] = j
    OBVIOUS
  <2>1. j - 1 \in P
    BY <1>1 DEF Positions
  <2>2. f[j - 1] = j
    BY <2>1 DEF Positions
  <2> QED  BY <2>1, <2>2
<1>4. f \in Bijection(P, R)
  BY <1>2, <1>3 DEF Bijection, Injection, Surjection, IsInjective
<1>5. IsFiniteSet(P) /\ Cardinality(P) \in Nat
  BY <1>1, PositionsFinite
<1>6. Cardinality(R) = Cardinality(P)
  <2>1. ExistsBijection(P, R)
    BY <1>4 DEF ExistsBijection
  <2> HIDE DEF P, R
  <2> QED  BY <1>5, <2>1, FS_Bijection
<1>7. 1 \in Positions(q, x) <=> Head(q) = x
  BY <1>1 DEF Positions
<1>8. IsFiniteSet(Positions(q, x)) /\ Cardinality(Positions(q, x)) \in Nat
  BY PositionsFinite
<1>9. Cardinality(R) = IF 1 \in Positions(q, x)
                       THEN Cardinality(Positions(q, x)) - 1
                       ELSE Cardinality(Positions(q, x))
  BY <1>8, FS_RemoveElement
<1> HIDE DEF R
<1> QED  BY <1>5, <1>6, <1>7, <1>8, <1>9

(***************************************************************************)
(* Wrong passwords.                                                        *)
(***************************************************************************)

\* The wrong passwords of an account whose increment has been queued, and the
\* increments that have not been executed.
Done(a) == {s \in WrongPasswords(a) : pc[s] # "failed_inc"}
Increment(a) == [op |-> "inc_failed_logins", of |-> a]
Pending(a) == Cardinality(Positions(delayQueue, Increment(a)))

\* What the table counts, with what is still queued, never exceeds the wrong
\* passwords there were.
Tally ==
  \A a \in Account :
    /\ IsFiniteSet(WrongPasswords(a))
    /\ failedLogins[a] + Pending(a) <= Cardinality(Done(a))

\* The wrong passwords an account has seen only grow in number, those counted
\* too, and a handler that queues its increment adds itself to the counted.
LEMMA WrongPasswordsGrow ==
  ASSUME TypeOK, Failing, Failing', Remembered,
         NobodyFailed \/ \E s \in Session : HandleLogonProofMismatch(s),
         Tally, NEW a \in Account
  PROVE  /\ WrongPasswords(a) \subseteq WrongPasswords(a)'
         /\ Done(a) \subseteq Done(a)'
         /\ IsFiniteSet(WrongPasswords(a)')
<1>1. /\ WrongPasswords(a) \subseteq WrongPasswords(a)'
      /\ Done(a) \subseteq Done(a)'
  BY Zenon DEF Remembered, Failed, WrongPasswords, Done
<1>2. IsFiniteSet(WrongPasswords(a))
  BY DEF Tally
<1>3. CASE NobodyFailed
  <2>1. WrongPasswords(a)' \subseteq WrongPasswords(a)
    BY <1>3, Zenon
    DEF NobodyFailed, Remembered, Failed, WrongPasswords
  <2> QED  BY <1>1, <1>2, <2>1, FS_Subset
<1>4. ASSUME NEW s \in Session, HandleLogonProofMismatch(s)
      PROVE  IsFiniteSet(WrongPasswords(a)')
  <2>1. WrongPasswords(a)' \subseteq WrongPasswords(a) \cup {s}
    <3>1. sent \in [Session -> SUBSET Reply]
      BY DEF TypeOK, SocketTypeOK, HandlerTypeOK
    <3>2. /\ sent' = [sent EXCEPT ![s] =
                        IF closed[s] THEN @ ELSE @ \cup {"WRONG_PASSWORD"}]
          /\ UNCHANGED login
      BY <1>4, Zenon DEF HandleLogonProofMismatch, Send
    <3> QED  BY <3>1, <3>2 DEF WrongPasswords
  <2>2. IsFiniteSet(WrongPasswords(a) \cup {s})
    BY <1>2, FS_AddElement
  <2> QED  BY <2>1, <2>2, FS_Subset
<1> QED  BY <1>1, <1>3, <1>4, Zenon

\* A set of wrong passwords that grows does not get smaller.
LEMMA CountsGrow ==
  ASSUME NEW S, NEW T, S \subseteq T, IsFiniteSet(T)
  PROVE  /\ IsFiniteSet(S) /\ Cardinality(S) \in Nat /\ Cardinality(T) \in Nat
         /\ Cardinality(S) <= Cardinality(T)
         /\ \A x \in T \ S : Cardinality(S) + 1 <= Cardinality(T)
<1>1. /\ IsFiniteSet(S) /\ Cardinality(S) \in Nat /\ Cardinality(T) \in Nat
      /\ Cardinality(S) <= Cardinality(T)
  BY FS_Subset, FS_CardinalityType
<1>2. ASSUME NEW x \in T \ S
      PROVE  Cardinality(S) + 1 <= Cardinality(T)
  <2>1. IsFiniteSet(S \cup {x}) /\ Cardinality(S \cup {x}) = Cardinality(S) + 1
    BY <1>1, FS_AddElement
  <2>2. S \cup {x} \in SUBSET T
    OBVIOUS
  <2> QED  BY <2>1, <2>2, FS_Subset
<1> QED  BY <1>1, <1>2

\* An increment of an account is that statement.
LEMMA IncrementIsStatement ==
  ASSUME NEW a \in Account
  PROVE  /\ Increment(a) \in Statement
         /\ \A stmt \in Statement :
              stmt = Increment(a) <=>
                stmt.op = "inc_failed_logins" /\ stmt.of = a
BY DEF Increment, Statement

\* Every step keeps the tally.
LEMMA TallyStep ==
  ASSUME TypeOK, Coherent, Failing, Tally, [Next]_vars
  PROVE  Tally'
<1>1. /\ Failing' /\ Remembered
      /\ NobodyFailed \/ \E s \in Session : HandleLogonProofMismatch(s)
  BY FailingStep
<1> SUFFICES ASSUME NEW a \in Account
             PROVE  /\ IsFiniteSet(WrongPasswords(a)')
                    /\ failedLogins'[a] + Pending(a)' <= Cardinality(Done(a)')
  BY DEF Tally
<1>2. /\ Done(a) \subseteq Done(a)'
      /\ IsFiniteSet(WrongPasswords(a)')
  BY <1>1, WrongPasswordsGrow
<1>3. IsFiniteSet(Done(a)')
  <2>1. Done(a)' \in SUBSET (WrongPasswords(a)')
    BY DEF Done
  <2> QED  BY <1>2, <2>1, FS_Subset
<1>4. /\ Cardinality(Done(a)) \in Nat /\ Cardinality(Done(a)') \in Nat
      /\ Cardinality(Done(a)) <= Cardinality(Done(a)')
      /\ \A s \in Done(a)' \ Done(a) :
           Cardinality(Done(a)) + 1 <= Cardinality(Done(a)')
  BY <1>2, <1>3, CountsGrow
<1>5. /\ failedLogins \in [Account -> Nat] /\ delayQueue \in Seq(Statement)
      /\ pc \in [Session -> Position] /\ sent \in [Session -> SUBSET Reply]
      /\ login \in [Session -> Account \cup {NoLogin}]
      /\ status \in [Session -> Status]
  BY DEF TypeOK, DatabaseTypeOK, DelayedTypeOK, QueueTypeOK, SocketTypeOK,
     HandlerTypeOK, ClaimTypeOK
<1>6. Pending(a) \in Nat /\ failedLogins[a] \in Nat
  BY <1>5, PositionsFinite DEF Pending
<1>7. failedLogins[a] + Pending(a) <= Cardinality(Done(a))
  BY DEF Tally
<1>e. failedLogins[a] + Pending(a) <= Cardinality(Done(a)')
  BY <1>4, <1>6, <1>7
<1>8. ASSUME NEW op \in {"inc_failed_logins", "ban_account", "set_vs", "ban_ip"},
             NEW of, [op |-> op, of |-> of] \in Statement, PExecute(op, of)
      PROVE  Pending(a)' = IF op = "inc_failed_logins" /\ of = a
                           THEN Pending(a) + 1 ELSE Pending(a)
  <2> DEFINE stmt == [op |-> op, of |-> of]
  <2>1. /\ delayQueue' = Append(delayQueue, stmt) /\ stmt \in Statement
        /\ stmt.op = op /\ stmt.of = of
    BY <1>8 DEF PExecute
  <2> HIDE DEF stmt
  <2>2. stmt = Increment(a) <=> op = "inc_failed_logins" /\ of = a
    BY <2>1, IncrementIsStatement
  <2>3. Cardinality(Positions(Append(delayQueue, stmt), Increment(a))) =
          IF stmt = Increment(a) THEN Pending(a) + 1 ELSE Pending(a)
    BY <1>5, <2>1, PositionsAppend DEF Pending
  <2> QED  BY <2>1, <2>2, <2>3, Zenon DEF Pending
<1>9. CASE UNCHANGED <<delayQueue, failedLogins>>
  BY <1>2, <1>4, <1>6, <1>7, <1>9 DEF Pending
<1>10. ASSUME NEW s \in Session, LogonPublish(s)
       PROVE  failedLogins'[a] + Pending(a)' <= Cardinality(Done(a)')
  <2>1. /\ delayQueue' = delayQueue
        /\ \/ failedLogins' = failedLogins
           \/ failedLogins' = [failedLogins EXCEPT ![login[s]] = 0]
    BY <1>10, Zenon DEF LogonPublish, PublishLogon
  <2>2. failedLogins'[a] \in Nat /\ failedLogins'[a] <= failedLogins[a]
    BY <1>5, <2>1
  <2> QED  BY <1>4, <1>6, <1>7, <2>1, <2>2 DEF Pending
<1>11. ASSUME NEW s \in Session, ChallengeAccountBan(s)
       PROVE  failedLogins'[a] + Pending(a)' <= Cardinality(Done(a)')
  <2>1. /\ failedLogins' = failedLogins /\ pc[s] = "account_ban"
        /\ delayQueue' = delayQueue \/ PExecute("set_vs", login[s])
    BY <1>11, Zenon DEF ChallengeAccountBan, At, delayedVars
  <2>2. [op |-> "set_vs", of |-> login[s]] \in Statement
    BY <2>1 DEF Coherent, Statement
  <2>3. Pending(a)' = Pending(a)
    BY <1>8, <2>1, <2>2 DEF Pending
  <2> QED  BY <1>e, <2>1, <2>3, Zenon
<1>12. ASSUME NEW s \in Session, FailedLoginIncrement(s)
       PROVE  failedLogins'[a] + Pending(a)' <= Cardinality(Done(a)')
  <2>1. /\ failedLogins' = failedLogins /\ pc[s] = "failed_inc"
        /\ pc' = [pc EXCEPT ![s] = "failed_read"]
        /\ PExecute("inc_failed_logins", login[s])
    BY <1>12, Zenon DEF FailedLoginIncrement, At, GoTo, delayedVars
  <2>2. [op |-> "inc_failed_logins", of |-> login[s]] \in Statement
    BY <2>1 DEF Coherent, Statement
  <2>3. CASE login[s] = a
    <3>1. Failed(s)
      BY <2>1 DEF Failing
    <3>2. s \in Done(a)'
      BY <1>1, <1>5, <2>1, <2>3, <3>1
      DEF Remembered, Failed, Done, WrongPasswords
    <3>3. s \notin Done(a)
      BY <2>1 DEF Done
    <3>4. Pending(a)' = Pending(a) + 1
      BY <1>8, <2>1, <2>2, <2>3
    <3> QED  BY <1>4, <1>6, <1>7, <2>1, <3>2, <3>3, <3>4
  <2>4. CASE login[s] # a
    <3>1. Pending(a)' = Pending(a)
      BY <1>8, <2>1, <2>2, <2>4
    <3> QED  BY <1>4, <1>6, <1>7, <2>1, <3>1
  <2> QED  BY <2>3, <2>4
<1>13. ASSUME NEW s \in Session, FailedLoginCheck(s)
       PROVE  failedLogins'[a] + Pending(a)' <= Cardinality(Done(a)')
  <2>1. /\ failedLogins' = failedLogins /\ pc[s] = "failed_read"
        /\ \/ delayQueue' = delayQueue
           \/ PExecute("ban_account", login[s])
           \/ PExecute("ban_ip", AddressOf[s])
    BY <1>13, Zenon DEF FailedLoginCheck, At, delayedVars
  <2>2. /\ [op |-> "ban_account", of |-> login[s]] \in Statement
        /\ [op |-> "ban_ip", of |-> AddressOf[s]] \in Statement
    BY <2>1, SessionAssumption DEF Coherent, Statement
  <2>3. Pending(a)' = Pending(a)
    BY <1>8, <2>1, <2>2 DEF Pending
  <2> QED  BY <1>e, <2>1, <2>3, Zenon
<1>14. CASE DelayThread
  <2>1. /\ delayQueue # <<>> /\ delayQueue' = Tail(delayQueue)
        /\ Head(delayQueue) \in Statement
        /\ delayQueue' \in Seq(Statement)
    <3>1. delayQueue # <<>> /\ delayQueue' = Tail(delayQueue)
      BY <1>14, Zenon DEF DelayThread
    <3> QED  BY <1>5, <3>1
  <2>2. Pending(a) = IF Head(delayQueue) = Increment(a)
                     THEN Pending(a)' + 1 ELSE Pending(a)'
    BY <1>5, <2>1, PositionsTail DEF Pending
  <2>3. Pending(a)' \in Nat
    BY <2>1, PositionsFinite DEF Pending
  <2>4. \/ failedLogins' = failedLogins
        \/ /\ Head(delayQueue).op = "inc_failed_logins"
           /\ failedLogins' = [failedLogins EXCEPT ![Head(delayQueue).of] =
                IF Head(delayQueue).of \in rows THEN @ + 1 ELSE @]
    BY <1>14, Zenon DEF DelayThread
  <2>5. Head(delayQueue) = Increment(a) <=>
          /\ Head(delayQueue).op = "inc_failed_logins"
          /\ Head(delayQueue).of = a
    BY <2>1, IncrementIsStatement
  <2>6. /\ failedLogins'[a] \in Nat
        /\ failedLogins'[a] <= IF Head(delayQueue) = Increment(a)
                               THEN failedLogins[a] + 1 ELSE failedLogins[a]
    <3> DEFINE b == Head(delayQueue).of
    <3>1. CASE failedLogins' = failedLogins
      BY <1>6, <3>1
    <3>2. CASE /\ Head(delayQueue).op = "inc_failed_logins"
               /\ failedLogins' = [failedLogins EXCEPT ![b] =
                                     IF b \in rows THEN @ + 1 ELSE @]
      <4>1. CASE b = a
        <5>1. Head(delayQueue) = Increment(a)
          BY <2>5, <3>2, <4>1
        <5>2. failedLogins'[a] \in {failedLogins[a], failedLogins[a] + 1}
          BY <1>5, <3>2, <4>1
        <5> QED  BY <1>6, <5>1, <5>2
      <4>2. CASE b # a
        <5>1. failedLogins'[a] = failedLogins[a]
          BY <1>5, <3>2, <4>2
        <5> QED  BY <1>6, <5>1
      <4> QED  BY <4>1, <4>2
    <3> QED  BY <2>4, <3>1, <3>2, Zenon
  <2>7. failedLogins'[a] + Pending(a)' <= failedLogins[a] + Pending(a)
    <3>1. CASE Head(delayQueue) = Increment(a)
      BY <1>6, <2>2, <2>3, <2>6, <3>1
    <3>2. CASE Head(delayQueue) # Increment(a)
      BY <1>6, <2>2, <2>3, <2>6, <3>2
    <3> QED  BY <3>1, <3>2
  <2>8. failedLogins'[a] + Pending(a)' <= Cardinality(Done(a)')
    BY <1>4, <1>6, <1>e, <2>3, <2>6, <2>7
  <2> QED  BY <1>2, <2>8, Zenon
<1> QED
  BY <1>2, <1>9, <1>10, <1>11, <1>12, <1>13, <1>14, QueueSteps, Zenon

(***************************************************************************)
(* Bans.                                                                   *)
(***************************************************************************)

\* A statement that bans is earned.
Earned(stmt) ==
  /\ stmt.op = "ban_account" =>
       Cardinality(WrongPasswords(stmt.of)) >= MaxWrongPassCount
  /\ stmt.op = "ban_ip" =>
       \E a \in Account :
         /\ Cardinality(WrongPasswords(a)) >= MaxWrongPassCount
         /\ \E s \in WrongPasswords(a) : AddressOf[s] = stmt.of

\* What the wrong passwords of the run have to satisfy.
Bans == Failing /\ Tally /\ NoEarlyBan

\* Every step keeps every queued ban earned.
LEMMA BansStep ==
  ASSUME TypeOK, Coherent, SweepHolds, Bans, [Next]_vars
  PROVE  Bans'
<1>1. /\ Failing' /\ Remembered /\ Failing /\ Tally /\ NoEarlyBan
      /\ NobodyFailed \/ \E s \in Session : HandleLogonProofMismatch(s)
  BY FailingStep DEF Bans
<1>2. Tally'
  BY <1>1, TallyStep
<1>3. \A a \in Account :
        /\ WrongPasswords(a) \subseteq WrongPasswords(a)'
        /\ Cardinality(WrongPasswords(a)) \in Nat
        /\ Cardinality(WrongPasswords(a)') \in Nat
        /\ Cardinality(WrongPasswords(a)) <= Cardinality(WrongPasswords(a)')
  BY <1>1, WrongPasswordsGrow, CountsGrow
<1>4. /\ delayQueue \in Seq(Statement) /\ MaxWrongPassCount \in Nat
      /\ failedLogins \in [Account -> Nat]
  BY SessionAssumption
  DEF TypeOK, DatabaseTypeOK, DelayedTypeOK, QueueTypeOK
<1>5. ASSUME NEW stmt \in Statement, Earned(stmt)
      PROVE  Earned(stmt)'
  <2>1. CASE stmt.op = "ban_account"
    <3>1. stmt.of \in Account
      BY <2>1 DEF Statement
    <3> QED  BY <1>3, <1>4, <1>5, <2>1, <3>1 DEF Earned
  <2>2. CASE stmt.op = "ban_ip"
    <3>1. PICK a \in Account :
            /\ Cardinality(WrongPasswords(a)) >= MaxWrongPassCount
            /\ \E s \in WrongPasswords(a) : AddressOf[s] = stmt.of
      BY <1>5, <2>2 DEF Earned
    <3>2. /\ Cardinality(WrongPasswords(a)') >= MaxWrongPassCount
          /\ \E s \in WrongPasswords(a)' : AddressOf[s] = stmt.of
      BY <1>3, <1>4, <3>1
    <3> QED  BY <2>2, <3>2 DEF Earned
  <2> QED  BY <2>1, <2>2 DEF Earned
<1>6. \A i \in 1 .. Len(delayQueue) : Earned(delayQueue[i])
  BY <1>1, <1>4 DEF NoEarlyBan, Earned
<1>7. delayQueue' \in Seq(Statement)
  BY TypeStep DEF TypeOK, DatabaseTypeOK, QueueTypeOK
<1> SUFFICES ASSUME NEW i \in DOMAIN delayQueue', NEW stmt \in Statement,
                    stmt = delayQueue'[i]
             PROVE  Earned(stmt)'
  <2>1. ASSUME \A k \in DOMAIN delayQueue' : \A st \in Statement :
                 st = delayQueue'[k] => Earned(st)'
        PROVE  NoEarlyBan'
    <3>1. \A k \in DOMAIN delayQueue' : delayQueue'[k] \in Statement
      BY <1>7
    <3> QED  BY <2>1, <3>1, Zenon DEF NoEarlyBan, Earned
  <2> QED  BY <1>1, <1>2, <2>1, Zenon DEF Bans
<1>8. ASSUME NEW j \in 1 .. Len(delayQueue), stmt = delayQueue[j]
      PROVE  Earned(stmt)'
  BY <1>5, <1>6, <1>8
<1>9. CASE delayQueue' = delayQueue
  BY <1>4, <1>8, <1>9
<1>10. ASSUME NEW op, NEW of, [op |-> op, of |-> of] \in Statement,
              PExecute(op, of), stmt # [op |-> op, of |-> of]
       PROVE  Earned(stmt)'
  <2>1. \E j \in 1 .. Len(delayQueue) : stmt = delayQueue[j]
    BY <1>4, <1>10 DEF PExecute
  <2> QED  BY <1>8, <2>1
<1>11. stmt.op \notin {"ban_account", "ban_ip"} => Earned(stmt)'
  BY DEF Earned
<1>12. ASSUME NEW s \in Session, ChallengeAccountBan(s)
       PROVE  Earned(stmt)'
  <2>1. /\ pc[s] = "account_ban"
        /\ delayQueue' = delayQueue \/ PExecute("set_vs", login[s])
    BY <1>12, Zenon DEF ChallengeAccountBan, At
  <2>2. [op |-> "set_vs", of |-> login[s]] \in Statement
    BY <2>1 DEF Coherent, Statement
  <2>3. stmt = [op |-> "set_vs", of |-> login[s]] => Earned(stmt)'
    BY <1>11
  <2> QED  BY <1>9, <1>10, <2>1, <2>2, <2>3, Zenon
<1>13. ASSUME NEW s \in Session, FailedLoginIncrement(s)
       PROVE  Earned(stmt)'
  <2>1. pc[s] = "failed_inc" /\ PExecute("inc_failed_logins", login[s])
    BY <1>13, Zenon DEF FailedLoginIncrement, At
  <2>2. [op |-> "inc_failed_logins", of |-> login[s]] \in Statement
    BY <2>1 DEF Coherent, Statement
  <2>3. stmt = [op |-> "inc_failed_logins", of |-> login[s]] => Earned(stmt)'
    BY <1>11
  <2> QED  BY <1>10, <2>1, <2>2, <2>3, Zenon
<1>14. ASSUME NEW s \in Session, FailedLoginCheck(s)
       PROVE  Earned(stmt)'
  <2>1. /\ pc[s] = "failed_read"
        /\ \/ delayQueue' = delayQueue
           \/ LimitReached(s) /\ PExecute("ban_account", login[s])
           \/ LimitReached(s) /\ PExecute("ban_ip", AddressOf[s])
    BY <1>14, Zenon DEF FailedLoginCheck, At
  <2>2. PICK a \in Account : a = login[s]
    BY <2>1 DEF Coherent
  <2>3. /\ [op |-> "ban_account", of |-> a] \in Statement
        /\ [op |-> "ban_ip", of |-> AddressOf[s]] \in Statement
    BY SessionAssumption DEF Statement
  <2>4. s \in WrongPasswords(a) /\ s \in WrongPasswords(a)'
    BY <1>1, <1>3, <2>1, <2>2 DEF Failing, Failed, WrongPasswords
  <2>5. LimitReached(s) => Cardinality(WrongPasswords(a)) >= MaxWrongPassCount
    <3>1. Done(a) \subseteq WrongPasswords(a)
      BY DEF Done
    <3>2. /\ Cardinality(Done(a)) \in Nat
          /\ Cardinality(Done(a)) <= Cardinality(WrongPasswords(a))
      BY <1>1, <3>1, CountsGrow DEF Tally
    <3>3. /\ Pending(a) \in Nat /\ failedLogins[a] \in Nat
          /\ failedLogins[a] + Pending(a) <= Cardinality(Done(a))
      BY <1>1, <1>4, PositionsFinite DEF Pending, Tally
    <3> QED  BY <1>3, <1>4, <2>2, <3>2, <3>3 DEF LimitReached
  <2>a. LimitReached(s) => Cardinality(WrongPasswords(a)') >= MaxWrongPassCount
    BY <1>3, <1>4, <2>5
  <2>6. CASE LimitReached(s) /\ stmt = [op |-> "ban_account", of |-> a]
    <3>1. stmt.op = "ban_account" /\ stmt.of = a
      BY <2>6
    <3> QED  BY <2>6, <2>a, <3>1, Zenon DEF Earned
  <2>7. CASE LimitReached(s) /\ stmt = [op |-> "ban_ip", of |-> AddressOf[s]]
    <3>1. stmt.op = "ban_ip" /\ stmt.of = AddressOf[s]
      BY <2>7
    <3> QED  BY <2>4, <2>7, <2>a, <3>1, Zenon DEF Earned
  <2> QED  BY <1>9, <1>10, <2>1, <2>2, <2>3, <2>6, <2>7
<1>15. CASE DelayThread
  <2>1. delayQueue # <<>> /\ delayQueue' = Tail(delayQueue)
    BY <1>15 DEF DelayThread
  <2>2. i + 1 \in 1 .. Len(delayQueue) /\ stmt = delayQueue[i + 1]
    BY <1>4, <2>1
  <2> QED  BY <1>8, <2>2
<1>16. ASSUME NEW s \in Session, LogonPublish(s)
       PROVE  delayQueue' = delayQueue
  BY <1>16, Zenon DEF LogonPublish
<1> QED
  BY <1>9, <1>12, <1>13, <1>14, <1>15, <1>16, QueueSteps, Zenon

\* Nobody has failed yet.
LEMMA BansInit ==
  Init => Bans
<1> SUFFICES ASSUME Init PROVE Bans
  OBVIOUS
<1>1. /\ \A s \in Session : sent[s] = {} /\ pc[s] = "idle"
      /\ \A a \in Account : failedLogins[a] = 0
      /\ delayQueue = <<>>
  BY DEF Init, SocketInit, DatabaseInit
<1>2. Failing
  BY <1>1 DEF Failing, Failed
<1>3. ASSUME NEW a \in Account
      PROVE  /\ IsFiniteSet(WrongPasswords(a))
             /\ failedLogins[a] + Pending(a) <= Cardinality(Done(a))
  <2>1. WrongPasswords(a) = {} /\ Done(a) = {}
    BY <1>1 DEF WrongPasswords, Done
  <2>2. Positions(delayQueue, Increment(a)) = {}
    BY <1>1 DEF Positions
  <2>3. failedLogins[a] = 0
    BY <1>1
  <2> QED  BY <2>1, <2>2, <2>3, FS_EmptySet DEF Pending
<1>4. NoEarlyBan
  BY <1>1 DEF NoEarlyBan
<1> QED  BY <1>2, <1>3, <1>4 DEF Bans, Tally

(***************************************************************************)
(* Counters.                                                               *)
(***************************************************************************)

\* The counters are exact, and there are finitely many sessions to count.
Counters ==
  Busy /\ IsFiniteSet(Alive) /\ CountersExact

\* Every step keeps the counters exact.
LEMMA CountersStep ==
  TypeOK /\ Coherent /\ Counters /\ [Next]_vars => Counters'
<1> SUFFICES ASSUME TypeOK, Coherent, Counters, [Next]_vars PROVE Counters'
  OBVIOUS
<1>a. /\ pc \in [Session -> Position] /\ status \in [Session -> Status]
      /\ life \in [Session -> {"new", "alive", "destroyed"}]
      /\ held \in [Session -> BOOLEAN]
  BY DEF TypeOK, SocketTypeOK, LifeTypeOK, HandlerTypeOK
<1>b. /\ Busy /\ IsFiniteSet(Alive)
      /\ connections = Cardinality(Alive)
      /\ authed = Cardinality(AuthedSessions)
  BY DEF Counters, CountersExact, Alive, AuthedSessions
<1>c. IsFiniteSet(AuthedSessions)
  <2>1. AuthedSessions \in SUBSET Alive
    BY DEF Alive, AuthedSessions
  <2> QED  BY <1>b, <2>1, FS_Subset
<1>d. Cardinality(Alive) \in Nat /\ Cardinality(AuthedSessions) \in Nat
  BY <1>b, <1>c, FS_CardinalityType
<1>e. Busy'
  BY <1>b, CountingSteps
<1>f. SUFFICES /\ IsFiniteSet(Alive')
               /\ connections' = Cardinality(Alive')
               /\ authed' = Cardinality(AuthedSessions')
  BY <1>e DEF Counters, CountersExact, Alive, AuthedSessions
<1>1. CASE Uncounted
  <2>1. Alive' = Alive /\ AuthedSessions' = AuthedSessions
    BY <1>1 DEF Uncounted, Alive, AuthedSessions
  <2> QED  BY <1>1, <1>b, <2>1 DEF Uncounted
<1>2. ASSUME NEW s \in Session, CountAuthed(s)
      PROVE  /\ IsFiniteSet(Alive')
             /\ connections' = Cardinality(Alive')
             /\ authed' = Cardinality(AuthedSessions')
  <2>1. /\ pc[s] = "count" /\ pc' = [pc EXCEPT ![s] = "idle"]
        /\ UNCHANGED <<status, life, connections>> /\ authed' = authed + 1
    BY <1>2 DEF CountAuthed, At, GoTo, lifeVars
  <2>2. status[s] = "AUTHED" /\ life[s] = "alive"
    BY <1>b, <2>1 DEF Coherent, Busy
  <2>3. Alive' = Alive
    BY <2>1 DEF Alive
  <2>4. s \notin AuthedSessions /\ AuthedSessions' = AuthedSessions \cup {s}
    BY <1>a, <2>1, <2>2 DEF AuthedSessions
  <2>5. Cardinality(AuthedSessions \cup {s}) = Cardinality(AuthedSessions) + 1
    BY <1>c, <2>4, FS_AddElement
  <2> QED  BY <1>b, <2>1, <2>3, <2>4, <2>5
<1>3. ASSUME NEW s \in Session, Accept(s)
      PROVE  /\ IsFiniteSet(Alive')
             /\ connections' = Cardinality(Alive')
             /\ authed' = Cardinality(AuthedSessions')
  <2>1. /\ life[s] = "new" /\ life' = [life EXCEPT ![s] = "alive"]
        /\ UNCHANGED <<pc, status, authed>> /\ connections' = connections + 1
    BY <1>3 DEF Accept, Construct
  <2>2. status[s] # "AUTHED"
    BY <2>1 DEF Coherent
  <2>3. AuthedSessions' = AuthedSessions
    BY <1>a, <2>1, <2>2 DEF AuthedSessions
  <2>4. s \notin Alive /\ Alive' = Alive \cup {s}
    BY <1>a, <2>1 DEF Alive
  <2>5. /\ IsFiniteSet(Alive \cup {s})
        /\ Cardinality(Alive \cup {s}) = Cardinality(Alive) + 1
    BY <1>b, <2>4, FS_AddElement
  <2> QED  BY <1>b, <2>1, <2>3, <2>4, <2>5
<1>4. ASSUME NEW s \in Session, Release(s)
      PROVE  /\ IsFiniteSet(Alive')
             /\ connections' = Cardinality(Alive')
             /\ authed' = Cardinality(AuthedSessions')
  <2>1. /\ life[s] = "alive" /\ ~held[s]
        /\ life' = [life EXCEPT ![s] = "destroyed"]
        /\ UNCHANGED <<pc, status>> /\ connections' = connections - 1
        /\ authed' = IF status[s] = "AUTHED" THEN authed - 1 ELSE authed
    BY <1>4 DEF Release, Destruct, WasAuthed
  <2>2. pc[s] = "idle"
    BY <1>b, <2>1 DEF Busy
  <2>3. s \in Alive /\ Alive' = Alive \ {s}
    BY <1>a, <2>1 DEF Alive
  <2>4. /\ IsFiniteSet(Alive \ {s})
        /\ Cardinality(Alive \ {s}) = Cardinality(Alive) - 1
    BY <1>b, <2>3, FS_RemoveElement
  <2>5. AuthedSessions' = AuthedSessions \ {s}
    BY <1>a, <2>1 DEF AuthedSessions
  <2>6. s \in AuthedSessions <=> status[s] = "AUTHED"
    BY <2>1, <2>2 DEF AuthedSessions
  <2>7. Cardinality(AuthedSessions \ {s}) =
          IF s \in AuthedSessions THEN Cardinality(AuthedSessions) - 1
                                  ELSE Cardinality(AuthedSessions)
    BY <1>c, FS_RemoveElement
  <2> QED  BY <1>b, <2>1, <2>3, <2>4, <2>5, <2>6, <2>7
<1> QED
  BY <1>b, <1>1, <1>2, <1>3, <1>4, CountingSteps, Zenon

\* No session is there to count at first.
LEMMA CountersInit ==
  Init => Counters
<1> SUFFICES ASSUME Init PROVE Counters
  OBVIOUS
<1>1. Busy /\ connections = 0 /\ authed = 0
  BY DEF Init, SocketInit, Busy
<1>2. Alive = {} /\ AuthedSessions = {}
  BY DEF Init, SocketInit, Alive, AuthedSessions
<1>3. IsFiniteSet({}) /\ Cardinality({}) = 0
  BY FS_EmptySet
<1> QED
  BY <1>1, <1>2, <1>3 DEF Counters, CountersExact, Alive, AuthedSessions

(***************************************************************************)
(* What follows.                                                           *)
(***************************************************************************)

\* The two counters realmd reports (AuthSocket.cpp 219-228, 927 and 1132) are
\* the number of live sessions and of those that authenticated and are still
\* there, in every interleaving of handlers with the end of their sessions.
THEOREM CountersAreExact == Spec => []CountersExact
<1>1. Base /\ Counters /\ [Next]_vars => Counters'
  BY CountersStep DEF Base
<1>2. Counters => CountersExact
  BY DEF Counters
<1> QED  BY CountersInit, BaseInvariance, <1>1, <1>2, PTL DEF Spec

\* No account and no address is banned before WrongPass.MaxCount wrong
\* passwords (AuthSocket.cpp 948-976), for every limit and however the
\* increments that are still queued interleave with the counts that are read.
THEOREM NobodyIsBannedEarly == Spec => []NoEarlyBan
<1>1. Base /\ Bans /\ [Next]_vars => Bans'
  BY BansStep DEF Base
<1>2. Bans => NoEarlyBan
  BY DEF Bans
<1> QED  BY BansInit, BaseInvariance, <1>1, <1>2, PTL DEF Spec
=============================================================================

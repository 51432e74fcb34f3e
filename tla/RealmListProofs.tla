--------------------------- MODULE RealmListProofs ---------------------------
(***************************************************************************)
(* The refresh gate, for any number of threads, realms and edits and any   *)
(* interval: the list never goes back, no client sees it go back, and it   *)
(* is as fresh as the interval promises, also after a query that failed.   *)
(***************************************************************************)
EXTENDS RealmList, TLAPS

Inside == {"check", "query", "publish", "unlock"}

\* A snapshot carries the version its query saw and the time it was due.
Stamped(s) == s.asOf \in Nat /\ s.at \in Nat

\* The mutex: its holder is the one thread between try_lock and unlock.
Gate ==
  /\ clock \in Nat /\ nextUpdate \in Nat /\ answered \in Nat
  /\ created \in Seq(Nat)
  /\ owner \in Thread \cup {NoThread}
  /\ pc \in [Thread -> Position]
  /\ now \in [Thread -> Nat] /\ floor \in [Thread -> Nat]
  /\ lost \in [Thread -> BOOLEAN]
  /\ DOMAIN built = Thread /\ DOMAIN view = Thread
  /\ Stamped(snapshot)
  /\ \A t \in Thread : Stamped(built[t]) /\ Stamped(view[t])
  /\ \A t \in Thread : pc[t] \in Inside <=> owner = t

\* Versions: what is about to be published is no older than what is.
Order ==
  /\ snapshot.asOf <= Version
  /\ answered <= snapshot.asOf
  /\ \A t \in Thread :
       /\ view[t].asOf <= snapshot.asOf
       /\ floor[t] <= answered
       /\ pc[t] = "publish" => /\ snapshot.asOf <= built[t].asOf
                               /\ built[t].asOf <= Version
       /\ pc[t] = "entries" => floor[t] <= view[t].asOf

\* A snapshot made at a time has every version older than the time.
Has(asOf, time) == \A v \in DOMAIN created : created[v] < time => v <= asOf

\* Nothing is from the future.
Clocks ==
  /\ \A v \in DOMAIN created : created[v] <= clock
  /\ \A t \in Thread : now[t] <= clock
  /\ snapshot.at <= clock

\* A refresh that is under way has put off the next one.
UnderWay ==
  \A t \in Thread :
    /\ pc[t] \in {"query", "publish", "unlock"} =>
         nextUpdate = now[t] + UpdateInterval /\ snapshot.at <= now[t]
    /\ pc[t] = "publish" => Has(built[t].asOf, now[t]) /\ built[t].at = now[t]

\* Otherwise the snapshot is the one nextUpdate was counted from.
Settled ==
  (\A t \in Thread : pc[t] \notin {"query", "publish"}) =>
    /\ \A v \in DOMAIN created :
         created[v] + UpdateInterval < nextUpdate => v <= snapshot.asOf
    /\ snapshot.at <= nextUpdate
    /\ nextUpdate <= snapshot.at + UpdateInterval

\* A thread that was let in and has left finds a snapshot new enough for it.
Passed ==
  \A t \in Thread : pc[t] = "load" /\ ~lost[t] /\ UpdateInterval > 0 =>
    /\ \A v \in DOMAIN created :
         created[v] + UpdateInterval <= now[t] => v <= snapshot.asOf
    /\ now[t] < snapshot.at + UpdateInterval

Fresh ==
  Clocks /\ UnderWay /\ Settled /\ Passed /\ FreshEnough /\ OutageIsShort

\* What a refresh builds is stamped with the version its query saw.
LEMMA BuiltStamps ==
  ASSUME NEW rows, NEW v \in Nat, NEW time \in Nat
  PROVE  LET s == BuildSnapshot(rows, v, time)
         IN s.asOf = v /\ s.at = time /\ Stamped(s)
BY DEF BuildSnapshot, Stamped

\* The gate before the first request.
LEMMA GateInit ==
  Init => Gate
<1> SUFFICES ASSUME Init PROVE Gate
  OBVIOUS
<1>1. Stamped(NoSnapshot) /\ Stamped(snapshot)
  BY BuiltStamps DEF Init, NoSnapshot
<1> HIDE DEF NoSnapshot
<1>2. /\ pc = [t \in Thread |-> "idle"] /\ owner = NoThread
      /\ clock = 0 /\ nextUpdate = 0 /\ answered = 0 /\ created = <<0>>
      /\ now = [t \in Thread |-> 0] /\ floor = [t \in Thread |-> 0]
      /\ lost = [t \in Thread |-> FALSE]
      /\ built = [t \in Thread |-> NoSnapshot]
      /\ view = [t \in Thread |-> NoSnapshot]
  BY DEF Init
<1>3. \A t \in Thread : pc[t] \in Inside <=> owner = t
  BY <1>2, RealmAssumption DEF Inside
<1>4. created \in Seq(Nat) /\ pc \in [Thread -> Position]
  BY <1>2 DEF Position
<1> QED
  BY <1>1, <1>2, <1>3, <1>4 DEF Gate

\* Every step keeps the mutex with the thread inside.
LEMMA GateStep ==
  Gate /\ [Next]_vars => Gate'
<1> SUFFICES ASSUME Gate, [Next]_vars PROVE Gate'
  OBVIOUS
<1>0. Stamped(NoSnapshot) /\ Version \in Nat
  <2>1. Stamped(NoSnapshot)
    BY BuiltStamps DEF NoSnapshot
  <2>2. Version \in Nat
    BY DEF Version, Gate
  <2> QED  BY <2>1, <2>2
<1>c. UpdateInterval \in Nat /\ NoThread \notin Thread
  BY RealmAssumption
<1> USE <1>c
    DEF Gate, Position, Inside, At, GoTo, tableVars, gateVars, requestVars,
        answerVars
<1>1. ASSUME NEW t \in Thread, UpdateIfNeed(t)
      PROVE  Gate'
  <2>1. /\ pc' = [pc EXCEPT ![t] = "gate"] /\ pc[t] = "idle"
        /\ now' = [now EXCEPT ![t] = clock]
        /\ floor' = [floor EXCEPT ![t] = answered]
        /\ UNCHANGED <<clock, created, snapshot, owner, nextUpdate, lost, built,
                       view, answered>>
    BY <1>1 DEF UpdateIfNeed
  <2> QED  BY <2>1
<1>2. ASSUME NEW t \in Thread, TryLock(t)
      PROVE  Gate'
  BY <1>2 DEF TryLock
<1>3. ASSUME NEW t \in Thread, RunIfDue(t)
      PROVE  Gate'
  <2>1. /\ pc[t] = "check" /\ pc' \in [Thread -> Position]
        /\ \A u \in Thread \ {t} : pc'[u] = pc[u]
        /\ UNCHANGED <<clock, created, snapshot, now, floor, lost, built, view,
                       answered>>
    BY <1>3 DEF RunIfDue
  <2>2. nextUpdate' \in Nat
    BY <1>3 DEF RunIfDue, NextDue
  <2>3. CASE pc' = [pc EXCEPT ![t] = "query"] /\ UNCHANGED owner
    BY <2>1, <2>2, <2>3
  <2>4. CASE pc' = [pc EXCEPT ![t] = "load"] /\ owner' = NoThread
    BY <2>1, <2>2, <2>4
  <2> QED  BY <1>3, <2>3, <2>4 DEF RunIfDue
<1>4. ASSUME NEW t \in Thread, QueryRealms(t)
      PROVE  Gate'
  <2>1. PICK rows : built' = [built EXCEPT ![t] =
                                BuildSnapshot(rows, Version, now[t])]
    BY <1>4 DEF QueryRealms
  <2>2. Stamped(BuildSnapshot(rows, Version, now[t]))
    BY <1>0, BuiltStamps
  <2> QED  BY <1>4, <2>1, <2>2 DEF QueryRealms
<1>5. ASSUME NEW t \in Thread, Publish(t)
      PROVE  Gate'
  BY <1>0, <1>5 DEF Publish
<1>6. ASSUME NEW t \in Thread, Unlock(t)
      PROVE  Gate'
  BY <1>6 DEF Unlock
<1>7. ASSUME NEW t \in Thread, GetRealmsForBuild(t)
      PROVE  Gate'
  BY <1>7 DEF GetRealmsForBuild
<1>8. ASSUME NEW t \in Thread, NEW r \in Realm, LoadRealm(t, r)
      PROVE  Gate'
  BY <1>8 DEF LoadRealm
<1>9. ASSUME NEW t \in Thread, SendRealmList(t)
      PROVE  Gate'
  BY <1>0, <1>9 DEF SendRealmList, Stamped
<1>10. CASE Tick
  BY <1>10 DEF Tick
<1>11. CASE EditTable
  BY <1>11 DEF EditTable
<1>12. CASE UNCHANGED vars
  BY <1>12 DEF vars
<1> HIDE DEF Gate
<1> QED
  BY <1>1, <1>2, <1>3, <1>4, <1>5, <1>6, <1>7, <1>8, <1>9, <1>10, <1>11,
     <1>12 DEF Next, Step

\* The first snapshot has version 1.
LEMMA OrderInit ==
  Init => Order
<1> SUFFICES ASSUME Init PROVE Order
  OBVIOUS
<1>1. snapshot.asOf = 1
  BY BuiltStamps DEF Init
<1>2. NoSnapshot.asOf = 0
  BY BuiltStamps DEF NoSnapshot
<1>3. Version = 1
  BY DEF Init, Version
<1> HIDE DEF NoSnapshot
<1> QED  BY <1>1, <1>2, <1>3 DEF Init, Order

\* Every step keeps the order of versions.
LEMMA OrderStep ==
  Gate /\ Order /\ [Next]_vars => Order'
<1> SUFFICES ASSUME Gate, Order, [Next]_vars PROVE Order'
  OBVIOUS
<1>0. NoSnapshot.asOf = 0 /\ Version \in Nat
  <2>1. NoSnapshot.asOf = 0
    BY BuiltStamps DEF NoSnapshot
  <2>2. Version \in Nat
    BY DEF Version, Gate
  <2> QED  BY <2>1, <2>2
<1>c. UpdateInterval \in Nat /\ NoThread \notin Thread
  BY RealmAssumption
<1> USE <1>c
    DEF Gate, Order, Version, Stamped, Position, Inside, At, GoTo, tableVars,
        gateVars, requestVars, answerVars
<1>1. ASSUME NEW t \in Thread, UpdateIfNeed(t)
      PROVE  Order'
  <2>1. /\ pc' = [pc EXCEPT ![t] = "gate"] /\ pc[t] = "idle"
        /\ floor' = [floor EXCEPT ![t] = answered]
        /\ UNCHANGED <<created, snapshot, built, view, answered>>
    BY <1>1 DEF UpdateIfNeed
  <2> QED  BY <2>1
<1>2. ASSUME NEW t \in Thread, TryLock(t) \/ RunIfDue(t) \/ Unlock(t)
      PROVE  Order'
  <2>1. /\ UNCHANGED <<created, snapshot, built, view, answered, floor>>
        /\ pc' \in [Thread -> Position]
        /\ \A u \in Thread \ {t} : pc'[u] = pc[u]
        /\ pc'[t] \notin {"publish", "entries"}
    BY <1>2 DEF TryLock, RunIfDue, Unlock
  <2> QED  BY <2>1
<1>3. ASSUME NEW t \in Thread, QueryRealms(t)
      PROVE  Order'
  <2>1. PICK rows : built' = [built EXCEPT ![t] =
                                BuildSnapshot(rows, Version, now[t])]
    BY <1>3 DEF QueryRealms
  <2>2. BuildSnapshot(rows, Version, now[t]).asOf = Version
    BY <1>0, BuiltStamps
  <2>3. /\ UNCHANGED <<created, snapshot, view, answered, floor>>
        /\ pc' = [pc EXCEPT ![t] = "publish"]
    BY <1>3 DEF QueryRealms
  <2> QED  BY <2>1, <2>2, <2>3
<1>4. ASSUME NEW t \in Thread, Publish(t)
      PROVE  Order'
  <2>1. /\ UNCHANGED <<created, view, answered, floor>>
        /\ pc[t] = "publish" /\ pc' = [pc EXCEPT ![t] = "unlock"]
        /\ snapshot' = built[t]
        /\ built' = [built EXCEPT ![t] = NoSnapshot]
    BY <1>4 DEF Publish
  <2>2. \A u \in Thread : pc'[u] # "publish"
    BY <2>1
  <2>3. snapshot.asOf <= snapshot'.asOf /\ snapshot'.asOf <= Version'
    BY <2>1
  <2> QED  BY <2>1, <2>2, <2>3
<1>5. ASSUME NEW t \in Thread, GetRealmsForBuild(t)
      PROVE  Order'
  <2>1. /\ UNCHANGED <<created, snapshot, built, answered, floor>>
        /\ pc' = [pc EXCEPT ![t] = "entries"]
        /\ view' = [view EXCEPT ![t] = snapshot]
    BY <1>5 DEF GetRealmsForBuild
  <2> QED  BY <2>1
<1>6. ASSUME NEW t \in Thread, NEW r \in Realm, LoadRealm(t, r)
      PROVE  Order'
  <2>1. UNCHANGED <<created, snapshot, built, view, answered, floor, pc>>
    BY <1>6 DEF LoadRealm
  <2> QED  BY <2>1
<1>7. ASSUME NEW t \in Thread, SendRealmList(t)
      PROVE  Order'
  <2>1. /\ UNCHANGED <<created, snapshot, built>>
        /\ pc' = [pc EXCEPT ![t] = "idle"]
        /\ floor' = [floor EXCEPT ![t] = 0]
        /\ view' = [view EXCEPT ![t] = NoSnapshot]
        /\ answered <= answered' /\ answered' <= snapshot.asOf
    BY <1>7 DEF SendRealmList
  <2>2. answered' \in Nat
    BY <1>7 DEF SendRealmList
  <2> QED  BY <1>0, <2>1, <2>2
<1>8. CASE Tick
  BY <1>8 DEF Tick
<1>9. CASE EditTable
  <2>1. /\ UNCHANGED <<snapshot, built, view, answered, floor, pc>>
        /\ Len(created') = Len(created) + 1
    BY <1>9 DEF EditTable
  <2> QED  BY <1>0, <2>1
<1>10. CASE UNCHANGED vars
  BY <1>10 DEF vars
<1> HIDE DEF Gate, Order
<1> QED
  BY <1>1, <1>2, <1>3, <1>4, <1>5, <1>6, <1>7, <1>8, <1>9, <1>10
  DEF Next, Step

\* The first snapshot was due at the start.
LEMMA FreshInit ==
  Init => Fresh
<1> SUFFICES ASSUME Init PROVE Fresh
  OBVIOUS
<1>1. snapshot.at = 0
  BY BuiltStamps DEF Init
<1>2. /\ clock = 0 /\ nextUpdate = 0
      /\ DOMAIN created = {1} /\ created[1] = 0
      /\ \A t \in Thread : now[t] = 0 /\ pc[t] = "idle"
  BY DEF Init
<1> QED
  BY <1>1, <1>2, RealmAssumption DEF Fresh, Clocks, UnderWay, Settled, Passed,
     FreshEnough, OutageIsShort, At

\* Every step keeps the times.
LEMMA FreshStep ==
  Gate /\ Order /\ Fresh /\ [Next]_vars => Fresh'
<1> SUFFICES ASSUME Gate, Order, Fresh, [Next]_vars PROVE Fresh'
  OBVIOUS
<1>0. Version \in Nat /\ DOMAIN created = 1 .. Version
      /\ \A v \in DOMAIN created : created[v] \in Nat
  BY DEF Version, Gate
<1>c. UpdateInterval \in Nat /\ NoThread \notin Thread
  BY RealmAssumption
<1> USE <1>0, <1>c
    DEF Gate, Stamped, Inside, At, GoTo, tableVars, gateVars, requestVars,
        answerVars
<1>1. ASSUME NEW t \in Thread, UpdateIfNeed(t)
      PROVE  Fresh'
  <2>1. /\ pc[t] = "idle" /\ pc' = [pc EXCEPT ![t] = "gate"]
        /\ now' = [now EXCEPT ![t] = clock]
        /\ UNCHANGED <<clock, created, snapshot, nextUpdate, lost, built, view>>
    BY <1>1 DEF UpdateIfNeed
  <2>11. Clocks'
    BY <2>1 DEF Fresh, Clocks
  <2>12. UnderWay'
    BY <2>1 DEF Fresh, UnderWay, Has
  <2>13. Settled'
    BY <2>1 DEF Fresh, Settled
  <2>14. Passed'
    BY <2>1 DEF Fresh, Passed
  <2>15. FreshEnough' /\ OutageIsShort'
    BY <2>1 DEF Fresh, FreshEnough, OutageIsShort
  <2> QED  BY <2>11, <2>12, <2>13, <2>14, <2>15 DEF Fresh
<1>2. ASSUME NEW t \in Thread, TryLock(t)
      PROVE  Fresh'
  <2>1. /\ pc[t] = "gate"
        /\ UNCHANGED <<clock, created, snapshot, nextUpdate, now, built, view>>
    BY <1>2 DEF TryLock
  <2>2. CASE pc' = [pc EXCEPT ![t] = "check"] /\ UNCHANGED lost
    <3>1. Clocks'
      BY <2>1, <2>2 DEF Fresh, Clocks
    <3>2. UnderWay'
      BY <2>1, <2>2 DEF Fresh, Clocks, UnderWay, Settled, Has
    <3>3. Settled'
      BY <2>1, <2>2 DEF Fresh, Clocks, UnderWay, Settled, Has
    <3>4. Passed'
      BY <2>1, <2>2 DEF Fresh, Clocks, UnderWay, Settled, Passed, Has
    <3>5. FreshEnough' /\ OutageIsShort'
      BY <2>1, <2>2 DEF Fresh, Clocks, Passed, FreshEnough, OutageIsShort
    <3> QED  BY <3>1, <3>2, <3>3, <3>4, <3>5 DEF Fresh
  <2>3. CASE /\ pc' = [pc EXCEPT ![t] = "load"]
             /\ lost' = [lost EXCEPT ![t] = TRUE]
    <3>1. Clocks'
      BY <2>1, <2>3 DEF Fresh, Clocks
    <3>2. UnderWay'
      BY <2>1, <2>3 DEF Fresh, Clocks, UnderWay, Settled, Has
    <3>3. Settled'
      BY <2>1, <2>3 DEF Fresh, Clocks, UnderWay, Settled, Has
    <3>4. Passed'
      BY <2>1, <2>3 DEF Fresh, Clocks, UnderWay, Settled, Passed, Has
    <3>5. FreshEnough' /\ OutageIsShort'
      BY <2>1, <2>3 DEF Fresh, Clocks, Passed, FreshEnough, OutageIsShort
    <3> QED  BY <3>1, <3>2, <3>3, <3>4, <3>5 DEF Fresh
  <2> QED  BY <1>2, <2>2, <2>3 DEF TryLock
<1>3. ASSUME NEW t \in Thread, RunIfDue(t)
      PROVE  Fresh'
  <2>1. /\ pc[t] = "check"
        /\ UNCHANGED <<clock, created, snapshot, now, lost, built, view>>
        /\ \A u \in Thread : pc[u] \notin {"query", "publish", "unlock"}
    BY <1>3 DEF RunIfDue
  <2>2. CASE Due(t) /\ nextUpdate' = NextDue(t)
             /\ pc' = [pc EXCEPT ![t] = "query"]
    <3>1. Clocks'
      BY <2>1, <2>2 DEF Fresh, Clocks, Due, NextDue
    <3>2. UnderWay'
      BY <2>1, <2>2 DEF Fresh, Clocks, UnderWay, Settled, Has, Due, NextDue
    <3>3. Settled'
      BY <2>1, <2>2 DEF Fresh, Clocks, UnderWay, Settled, Has, Due, NextDue
    <3>4. Passed'
      BY <2>1, <2>2 DEF Fresh, Clocks, UnderWay, Settled, Passed, Has, Due, NextDue
    <3>5. FreshEnough' /\ OutageIsShort'
      BY <2>1, <2>2 DEF Fresh, Clocks, Passed, FreshEnough, OutageIsShort, Due, NextDue
    <3> QED  BY <3>1, <3>2, <3>3, <3>4, <3>5 DEF Fresh
  <2>3. CASE ~Due(t) /\ pc' = [pc EXCEPT ![t] = "load"] /\ UNCHANGED nextUpdate
    <3>1. Clocks'
      BY <2>1, <2>3 DEF Fresh, Clocks, Due
    <3>2. UnderWay'
      BY <2>1, <2>3 DEF Fresh, Clocks, UnderWay, Settled, Has, Due
    <3>3. Settled'
      BY <2>1, <2>3 DEF Fresh, Clocks, UnderWay, Settled, Has, Due
    <3>4. Passed'
      <4>1. UpdateInterval > 0 => now[t] < nextUpdate
        BY <2>3 DEF Due
      <4>2. /\ \A v \in DOMAIN created :
                 created[v] + UpdateInterval < nextUpdate => v <= snapshot.asOf
            /\ nextUpdate <= snapshot.at + UpdateInterval
        BY <2>1 DEF Fresh, Settled
      <4> QED  BY <2>1, <2>3, <4>1, <4>2 DEF Fresh, Passed
    <3>5. FreshEnough' /\ OutageIsShort'
      BY <2>1, <2>3 DEF Fresh, Clocks, Passed, FreshEnough, OutageIsShort, Due
    <3> QED  BY <3>1, <3>2, <3>3, <3>4, <3>5 DEF Fresh
  <2> QED  BY <1>3, <2>2, <2>3 DEF RunIfDue
<1>4. ASSUME NEW t \in Thread, QueryRealms(t)
      PROVE  Fresh'
  <2>1. PICK rows : built' = [built EXCEPT ![t] =
                                BuildSnapshot(rows, Version, now[t])]
    BY <1>4 DEF QueryRealms
  <2>2. built'[t].asOf = Version /\ built'[t].at = now[t]
    BY <2>1, BuiltStamps
  <2>3. /\ pc[t] = "query" /\ pc' = [pc EXCEPT ![t] = "publish"]
        /\ \A u \in Thread \ {t} : built'[u] = built[u]
        /\ UNCHANGED <<clock, created, snapshot, nextUpdate, now, lost, view>>
    BY <1>4, <2>1 DEF QueryRealms
  <2>11. Clocks'
    BY <2>2, <2>3 DEF Fresh, Clocks
  <2>12. UnderWay'
    <3>1. nextUpdate = now[t] + UpdateInterval /\ snapshot.at <= now[t]
      BY <2>3 DEF Fresh, UnderWay
    <3>2. Has(built[t].asOf, now[t])'
      BY <2>2, <2>3 DEF Has
    <3>3. \A u \in Thread : Has(built[u].asOf, now[u])
                             /\ built'[u] = built[u] => Has(built[u].asOf, now[u])'
      BY <2>3 DEF Has
    <3> HIDE DEF Has
    <3> QED  BY <2>2, <2>3, <3>1, <3>2, <3>3 DEF Fresh, UnderWay
  <2>13. Settled'
    BY <2>2, <2>3 DEF Fresh, Clocks, UnderWay, Settled, Has
  <2>14. Passed'
    BY <2>2, <2>3 DEF Fresh, Clocks, UnderWay, Settled, Passed, Has
  <2>15. FreshEnough' /\ OutageIsShort'
    BY <2>2, <2>3 DEF Fresh, Clocks, Passed, FreshEnough, OutageIsShort
  <2> QED  BY <2>11, <2>12, <2>13, <2>14, <2>15 DEF Fresh
<1>5. ASSUME NEW t \in Thread, Publish(t)
      PROVE  Fresh'
  <2>1. /\ pc[t] = "publish" /\ pc' = [pc EXCEPT ![t] = "unlock"]
        /\ snapshot' = built[t]
        /\ \A u \in Thread : pc'[u] # "publish"
        /\ UNCHANGED <<clock, created, nextUpdate, now, lost, view>>
    BY <1>5 DEF Publish
  <2>2. snapshot.asOf <= snapshot'.asOf /\ snapshot.at <= snapshot'.at
    BY <2>1 DEF Order, Fresh, UnderWay
  <2>3. snapshot'.at = now[t] /\ Has(snapshot'.asOf, now[t])
    BY <2>1 DEF Fresh, UnderWay
  <2>11. Clocks'
    BY <2>1, <2>2, <2>3 DEF Fresh, Clocks
  <2>12. UnderWay'
    BY <2>1, <2>2, <2>3, SMTT(15) DEF Fresh, Clocks, UnderWay, Settled, Has
  <2>13. Settled'
    BY <2>1, <2>2, <2>3 DEF Fresh, Clocks, UnderWay, Settled, Has
  <2>14. Passed'
    <3>1. snapshot'.asOf \in Nat /\ snapshot'.at \in Nat
      BY <2>1
    <3>2. ASSUME NEW u \in Thread, pc'[u] = "load", ~lost[u],
                 UpdateInterval > 0
          PROVE  /\ \A v \in DOMAIN created :
                      created[v] + UpdateInterval <= now[u] =>
                        v <= snapshot'.asOf
                 /\ now[u] < snapshot'.at + UpdateInterval
      <4>1. pc[u] = "load"
        BY <2>1, <3>2
      <4>2. /\ \A v \in DOMAIN created :
                 created[v] + UpdateInterval <= now[u] => v <= snapshot.asOf
            /\ now[u] < snapshot.at + UpdateInterval
        BY <3>2, <4>1 DEF Fresh, Passed
      <4>3. now[u] < snapshot'.at + UpdateInterval
        BY <2>2, <3>1, <4>2
      <4>4. ASSUME NEW v \in DOMAIN created,
                   created[v] + UpdateInterval <= now[u]
            PROVE  v <= snapshot'.asOf
        <5>1. v \in Nat /\ snapshot.asOf \in Nat
          OBVIOUS
        <5>2. v <= snapshot.asOf
          BY <4>2, <4>4, Zenon
        <5> QED  BY <2>2, <3>1, <5>1, <5>2
      <4> QED  BY <4>3, <4>4
    <3> QED  BY <2>1, <3>2 DEF Passed
  <2>15. FreshEnough' /\ OutageIsShort'
    BY <2>1, <2>2, <2>3 DEF Fresh, Clocks, Passed, FreshEnough, OutageIsShort
  <2> QED  BY <2>11, <2>12, <2>13, <2>14, <2>15 DEF Fresh
<1>6. ASSUME NEW t \in Thread, Unlock(t)
      PROVE  Fresh'
  <2>1. /\ pc[t] = "unlock" /\ pc' = [pc EXCEPT ![t] = "load"]
        /\ UNCHANGED <<clock, created, snapshot, nextUpdate, now, lost, built,
                       view>>
    BY <1>6 DEF Unlock
  <2>2. \A u \in Thread : pc[u] \notin {"query", "publish"}
    BY <2>1
  <2>11. Clocks'
    BY <2>1, <2>2 DEF Fresh, Clocks
  <2>12. UnderWay'
    BY <2>1, <2>2 DEF Fresh, Clocks, UnderWay, Settled, Has
  <2>13. Settled'
    BY <2>1, <2>2 DEF Fresh, Clocks, UnderWay, Settled, Has
  <2>14. Passed'
    <3>1. /\ nextUpdate = now[t] + UpdateInterval
          /\ \A v \in DOMAIN created :
               created[v] + UpdateInterval < nextUpdate => v <= snapshot.asOf
          /\ nextUpdate <= snapshot.at + UpdateInterval
      BY <2>1, <2>2 DEF Fresh, UnderWay, Settled
    <3>2. UpdateInterval > 0 =>
            /\ \A v \in DOMAIN created :
                 created[v] + UpdateInterval <= now[t] => v <= snapshot.asOf
            /\ now[t] < snapshot.at + UpdateInterval
      BY <3>1
    <3> QED  BY <2>1, <3>2 DEF Fresh, Passed
  <2>15. FreshEnough' /\ OutageIsShort'
    BY <2>1, <2>2 DEF Fresh, Clocks, Passed, FreshEnough, OutageIsShort
  <2> QED  BY <2>11, <2>12, <2>13, <2>14, <2>15 DEF Fresh
<1>7. ASSUME NEW t \in Thread, GetRealmsForBuild(t)
      PROVE  Fresh'
  <2>1. /\ pc[t] = "load" /\ pc' = [pc EXCEPT ![t] = "entries"]
        /\ view' = [view EXCEPT ![t] = snapshot]
        /\ UNCHANGED <<clock, created, snapshot, nextUpdate, now, lost, built>>
    BY <1>7 DEF GetRealmsForBuild
  <2>11. Clocks'
    BY <2>1 DEF Fresh, Clocks
  <2>12. UnderWay'
    BY <2>1 DEF Fresh, Clocks, UnderWay, Settled, Has
  <2>13. Settled'
    BY <2>1 DEF Fresh, Clocks, UnderWay, Settled, Has
  <2>14. Passed'
    BY <2>1 DEF Fresh, Clocks, UnderWay, Settled, Passed, Has
  <2>15. FreshEnough' /\ OutageIsShort'
    BY <2>1 DEF Fresh, Clocks, Passed, FreshEnough, OutageIsShort
  <2> QED  BY <2>11, <2>12, <2>13, <2>14, <2>15 DEF Fresh
<1>8. ASSUME NEW t \in Thread, NEW r \in Realm, LoadRealm(t, r)
      PROVE  Fresh'
  <2>1. UNCHANGED <<clock, created, snapshot, nextUpdate, pc, now, lost, built,
                    view>>
    BY <1>8 DEF LoadRealm
  <2>11. Clocks'
    BY <2>1 DEF Fresh, Clocks
  <2>12. UnderWay'
    BY <2>1 DEF Fresh, Clocks, UnderWay, Settled, Has
  <2>13. Settled'
    BY <2>1 DEF Fresh, Clocks, UnderWay, Settled, Has
  <2>14. Passed'
    BY <2>1 DEF Fresh, Clocks, UnderWay, Settled, Passed, Has
  <2>15. FreshEnough' /\ OutageIsShort'
    BY <2>1 DEF Fresh, Clocks, Passed, FreshEnough, OutageIsShort
  <2> QED  BY <2>11, <2>12, <2>13, <2>14, <2>15 DEF Fresh
<1>9. ASSUME NEW t \in Thread, SendRealmList(t)
      PROVE  Fresh'
  <2>1. /\ pc[t] = "entries" /\ pc' = [pc EXCEPT ![t] = "idle"]
        /\ now' = [now EXCEPT ![t] = 0]
        /\ lost' = [lost EXCEPT ![t] = FALSE]
        /\ view' = [view EXCEPT ![t] = NoSnapshot]
        /\ UNCHANGED <<clock, created, snapshot, nextUpdate, built>>
    BY <1>9 DEF SendRealmList
  <2>11. Clocks'
    BY <2>1 DEF Fresh, Clocks
  <2>12. UnderWay'
    BY <2>1 DEF Fresh, Clocks, UnderWay, Settled, Has
  <2>13. Settled'
    BY <2>1 DEF Fresh, Clocks, UnderWay, Settled, Has
  <2>14. Passed'
    BY <2>1 DEF Fresh, Clocks, UnderWay, Settled, Passed, Has
  <2>15. FreshEnough' /\ OutageIsShort'
    BY <2>1 DEF Fresh, Clocks, Passed, FreshEnough, OutageIsShort
  <2> QED  BY <2>11, <2>12, <2>13, <2>14, <2>15 DEF Fresh
<1>10. CASE Tick
  <2>1. /\ clock' = clock + 1
        /\ UNCHANGED <<created, snapshot, nextUpdate, pc, now, lost, built, view>>
    BY <1>10 DEF Tick
  <2>11. Clocks'
    BY <2>1 DEF Fresh, Clocks
  <2>12. UnderWay'
    BY <2>1 DEF Fresh, Clocks, UnderWay, Settled, Has
  <2>13. Settled'
    BY <2>1 DEF Fresh, Clocks, UnderWay, Settled, Has
  <2>14. Passed'
    BY <2>1 DEF Fresh, Clocks, UnderWay, Settled, Passed, Has
  <2>15. FreshEnough' /\ OutageIsShort'
    BY <2>1 DEF Fresh, Clocks, Passed, FreshEnough, OutageIsShort
  <2> QED  BY <2>11, <2>12, <2>13, <2>14, <2>15 DEF Fresh
<1>11. CASE EditTable
  <2>1. UNCHANGED <<clock, snapshot, nextUpdate, pc, now, lost, built, view>>
    BY <1>11 DEF EditTable
  <2>2. /\ DOMAIN created' = 1 .. Version + 1
        /\ created'[Version + 1] = clock
        /\ \A v \in DOMAIN created : created'[v] = created[v]
    BY <1>11 DEF EditTable, Version
  <2>3. \A v \in DOMAIN created' :
          \/ v \in DOMAIN created /\ created'[v] = created[v]
          \/ created'[v] = clock
    BY <2>2
  <2>4. snapshot.at <= clock /\ \A u \in Thread : now[u] <= clock
    BY DEF Fresh, Clocks
  <2>11. Clocks'
    <3>1. ASSUME NEW v \in DOMAIN created'
          PROVE  created'[v] <= clock
      <4>1. CASE v \in DOMAIN created /\ created'[v] = created[v]
        BY <4>1 DEF Fresh, Clocks
      <4>2. CASE created'[v] = clock
        BY <4>2
      <4> QED  BY <2>3, <4>1, <4>2
    <3> QED  BY <2>1, <2>4, <3>1 DEF Clocks
  <2>12. UnderWay'
    <3>1. ASSUME NEW u \in Thread, pc[u] = "publish",
                 NEW v \in DOMAIN created', created'[v] < now[u]
          PROVE  v <= built[u].asOf
      <4>1. v \in DOMAIN created /\ created'[v] = created[v]
        BY <2>3, <2>4, <3>1
      <4> QED  BY <3>1, <4>1 DEF Fresh, UnderWay, Has
    <3> QED  BY <2>1, <3>1 DEF Fresh, UnderWay, Has
  <2>13. Settled'
    <3>1. ASSUME \A u \in Thread : pc[u] \notin {"query", "publish"},
                 NEW v \in DOMAIN created',
                 created'[v] + UpdateInterval < nextUpdate
          PROVE  v <= snapshot.asOf
      <4>1. nextUpdate <= clock + UpdateInterval
        BY <2>4, <3>1 DEF Fresh, Settled
      <4>2. v \in DOMAIN created /\ created'[v] = created[v]
        BY <2>3, <3>1, <4>1
      <4> QED  BY <3>1, <4>2 DEF Fresh, Settled
    <3> QED  BY <2>1, <3>1 DEF Fresh, Settled
  <2>14. Passed' /\ FreshEnough' /\ OutageIsShort'
    <3>1. ASSUME NEW u \in Thread, UpdateInterval > 0,
                 NEW v \in DOMAIN created',
                 created'[v] + UpdateInterval <= now[u]
          PROVE  v \in DOMAIN created /\ created'[v] = created[v]
      BY <2>3, <2>4, <3>1
    <3>2. Passed'
      BY <2>1, <3>1 DEF Fresh, Passed
    <3>3. FreshEnough' /\ OutageIsShort'
      BY <2>1, <3>1 DEF Fresh, FreshEnough, OutageIsShort
    <3> QED  BY <3>2, <3>3
  <2> QED  BY <2>11, <2>12, <2>13, <2>14 DEF Fresh
<1>12. CASE UNCHANGED vars
  BY <1>12 DEF vars, Fresh, Clocks, UnderWay, Settled, Passed, FreshEnough,
     OutageIsShort, Has
<1> HIDE DEF Gate, Fresh
<1> QED
  BY <1>1, <1>2, <1>3, <1>4, <1>5, <1>6, <1>7, <1>8, <1>9, <1>10, <1>11, <1>12
  DEF Next, Step

-----------------------------------------------------------------------------

\* The three invariants hold together.
LEMMA GateInvariance ==
  Spec => [](Gate /\ Order /\ Fresh)
<1>1. Init => Gate /\ Order /\ Fresh
  BY GateInit, OrderInit, FreshInit
<1>2. Gate /\ Order /\ Fresh /\ [Next]_vars => (Gate /\ Order /\ Fresh)'
  BY GateStep, OrderStep, FreshStep
<1> QED  BY <1>1, <1>2, PTL DEF Spec

\* Refreshes never overtake one another between their query and their
\* publication (RealmSnapshot.h 154-165), however many threads ask.
THEOREM ListNeverGoesBack ==
  Spec => NeverBackwards
<1>1. Gate /\ Order /\ [Next]_vars => [snapshot'.asOf >= snapshot.asOf]_vars
  <2> SUFFICES ASSUME Gate, Order, [Next]_vars
               PROVE  snapshot'.asOf >= snapshot.asOf
    OBVIOUS
  <2>1. CASE UNCHANGED snapshot
    BY <2>1 DEF Gate, Stamped
  <2>2. ASSUME NEW t \in Thread, Publish(t)
        PROVE  snapshot'.asOf >= snapshot.asOf
    BY <2>2 DEF Publish, At, Gate, Stamped, Order
  <2>3. UNCHANGED snapshot \/ \E t \in Thread : Publish(t)
    BY DEF Next, Step, vars, UpdateIfNeed, TryLock, RunIfDue, QueryRealms,
           Unlock, GetRealmsForBuild, LoadRealm, SendRealmList, Tick, EditTable
  <2> QED  BY <2>1, <2>2, <2>3
<1> QED  BY <1>1, GateInvariance, PTL DEF Spec, NeverBackwards

\* No client is answered with a list older than an answer any thread sent
\* before its request began.
THEOREM ClientsSeeProgress ==
  Spec => []SeesProgress
<1>1. Gate /\ Order => SeesProgress
  BY DEF Gate, Order, Stamped, SeesProgress, At
<1> QED  BY <1>1, GateInvariance, PTL

\* "updated at realm list request if delay expired" (realmd.conf.dist.in
\* 115), for any interval and any number of threads: a request that was let
\* into the gate misses no change that was an interval old.
THEOREM RefreshIsTimely ==
  Spec => []FreshEnough
<1>1. Fresh => FreshEnough
  BY DEF Fresh
<1> QED  BY <1>1, GateInvariance, PTL

\* The empty list a failed query publishes (RealmList.cpp 215-218) is shown
\* for less than an interval to whoever gets into the gate.
THEOREM FailureIsShort ==
  Spec => []OutageIsShort
<1>1. Fresh => OutageIsShort
  BY DEF Fresh
<1> QED  BY <1>1, GateInvariance, PTL
=============================================================================

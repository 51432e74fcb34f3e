-------------------------- MODULE RealmAnswerProofs --------------------------
(***************************************************************************)
(* The answers, for any number of threads, realms and edits: what a thread *)
(* writes is about one version of the table, whatever other threads        *)
(* publish while it is written, the number it announces is the number of   *)
(* its entries, in the width of the count, and the address in an entry is  *)
(* the one meant for the client.                                           *)
(***************************************************************************)
EXTENDS RealmList, FiniteSetTheorems, FunctionTheorems, WellFoundedInduction,
        TLAPS

(***************************************************************************)
(* What an answer is made of.                                              *)
(***************************************************************************)

\* Every build, known or not, belongs to a client generation.
LEMMA VersionType ==
  ASSUME NEW b
  PROVE  BelongsToVersion(b) \in RealmVersion
<1>1. \A p \in SupportedClientBuilds : p[2] \in RealmVersion
  BY SMT DEF SupportedClientBuilds, RealmVersion
<1>2. "VANILLA" \in RealmVersion
  BY DEF RealmVersion
<1>3. CASE Supported(b)
  <2>1. (CHOOSE p \in SupportedClientBuilds : p[1] = b) \in SupportedClientBuilds
    BY <1>3 DEF Supported
  <2> QED  BY <1>1, <1>3, <2>1 DEF BelongsToVersion
<1> QED  BY <1>2, <1>3 DEF BelongsToVersion

\* The first element of a realm's std::set of builds is its smallest.
LEMMA BeginIsLeast ==
  ASSUME NEW builds \in SUBSET Nat, builds # {}
  PROVE  /\ Begin(builds) \in builds
         /\ \A c \in builds : Begin(builds) <= c
<1> DEFINE R == {p \in Nat \X Nat : p[1] < p[2]}
<1>a. IsWellFoundedOn(R, Nat)
  BY NatLessThanWellFounded DEF OpToRel
<1> HIDE DEF R
<1>b. PICK b \in builds : \A c \in builds : ~(<<c, b>> \in R)
  BY <1>a, WFMin
<1>1. ASSUME NEW c \in builds PROVE b <= c
  <2>1. ~(<<c, b>> \in R) /\ b \in Nat /\ c \in Nat
    BY <1>b
  <2> QED  BY <2>1 DEF R
<1> QED  BY <1>1 DEF Begin

\* A realm is filed under the generation it belongs to, and under no other.
LEMMA FiledWhereItBelongs ==
  ASSUME NEW row \in Row, NEW v
  PROVE  FirstBuild(row) # 0 /\ FiledUnder(row) = v <=> Belongs(row, v)
<1> DEFINE builds == RealmBuilds(row)
<1>1. builds \in SUBSET Nat
  <2>1. row.builds \in Seq(Nat)
    BY RealmAssumption
  <2> QED  BY <2>1 DEF RealmBuilds
<1> HIDE DEF builds
<1>2. CASE builds = {}
  BY <1>2 DEF FirstBuild, Belongs, builds
<1>3. CASE builds # {}
  <2>1. Begin(builds) \in builds /\ \A c \in builds : Begin(builds) <= c
    BY <1>1, <1>3, BeginIsLeast
  <2> DEFINE Low(b) == b % 65536
             first == Begin(builds)
  <2>2. FirstBuild(row) = Low(first) /\ FiledUnder(row) = BelongsToVersion(first)
    BY <1>3, SMT DEF FirstBuild, FiledUnder, builds
  <2>3. Belongs(row, v) <=>
          \E b \in builds : /\ \A c \in builds : b <= c
                            /\ Low(b) # 0
                            /\ BelongsToVersion(b) = v
    BY SMT DEF Belongs, builds
  <2> HIDE DEF Low, first
  <2>4. first \in builds /\ \A c \in builds : first <= c
    BY <2>1 DEF first
  <2>5. ASSUME NEW b \in builds, \A c \in builds : b <= c
        PROVE  b = first
    <3>1. b \in Nat /\ first \in Nat
      BY <1>1, <2>4
    <3>2. b <= first /\ first <= b
      BY <2>4, <2>5
    <3> QED  BY <3>1, <3>2
  <2> QED  BY <2>2, <2>3, <2>4, <2>5
<1> QED  BY <1>2, <1>3

\* The realms of a snapshot, by generation.
Consistent(s) ==
  /\ s.realms \in Table
  /\ \A v \in RealmVersion :
       s.realmsByVersion[v] =
         {r \in DOMAIN s.realms : Belongs(s.realms[r], v)}

\* An empty answer of the database is a table.
LEMMA NoRowsIsTable ==
  NoRows \in Table
<1>1. NoRows \in [{} -> Row]
  BY DEF NoRows
<1> QED  BY <1>1 DEF Table

\* A row of a table is a row, of one of the realms.
LEMMA TableRows ==
  ASSUME NEW rows \in Table
  PROVE  DOMAIN rows \subseteq Realm /\ \A r \in DOMAIN rows : rows[r] \in Row
BY DEF Table

\* BuildSnapshot files every realm where it belongs.
LEMMA BuiltConsistent ==
  ASSUME NEW rows \in Table, NEW asOf \in Nat, NEW time \in 0 .. MaxClock
  PROVE  /\ Consistent(BuildSnapshot(rows, asOf, time))
         /\ BuildSnapshot(rows, asOf, time) \in Snapshot
<1> DEFINE s == BuildSnapshot(rows, asOf, time)
           Filed(v) == {r \in DOMAIN rows : FirstBuild(rows[r]) # 0
                                              /\ FiledUnder(rows[r]) = v}
<1>1. /\ s.realms = rows /\ s.asOf = asOf /\ s.at = time
      /\ s.realmsByVersion = [v \in RealmVersion |-> Filed(v)]
  BY DEF BuildSnapshot
<1>2. ASSUME NEW v \in RealmVersion
      PROVE  Filed(v) = {r \in DOMAIN rows : Belongs(rows[r], v)}
  BY TableRows, FiledWhereItBelongs
<1>3. ASSUME NEW v \in RealmVersion
      PROVE  Filed(v) \in SUBSET Realm
  BY TableRows
<1>4. s = [asOf |-> asOf, at |-> time, realms |-> rows,
           realmsByVersion |-> [v \in RealmVersion |-> Filed(v)]]
  BY DEF BuildSnapshot
<1> HIDE DEF Filed, s
<1>5. [v \in RealmVersion |-> Filed(v)] \in [RealmVersion -> SUBSET Realm]
  BY <1>3
<1>6. Consistent(s)
  BY <1>1, <1>2 DEF Consistent
<1>7. s \in Snapshot
  BY <1>4, <1>5 DEF Snapshot
<1> QED  BY <1>6, <1>7 DEF s

\* The realms the client of a thread may see in the thread's view.
Shown(t) == view[t].realmsByVersion[BelongsToVersion(client[t].build)]

\* An answer in the making: an entry for every realm but those still to do.
WritingOf(t) ==
  /\ Consistent(built[t]) /\ Consistent(view[t])
  /\ pc[t] # "entries" => entries[t] = {}
  /\ pc[t] = "entries" =>
       /\ todo[t] \subseteq Shown(t)
       /\ entries[t] = {Entry(r, view[t].realms[r], client[t]) :
                          r \in Shown(t) \ todo[t]}
       /\ count[t] = NumRealms(Shown(t), client[t])

Writing == Consistent(snapshot) /\ \A t \in Thread : WritingOf(t)

\* An entry tells the realm, and whether the client can enter it.
LEMMA EntryType ==
  ASSUME NEW r \in Realm, NEW row \in Row, NEW c \in Client
  PROVE  Entry(r, row, c) \in
           [realm : Realm, offline : BOOLEAN, locked : BOOLEAN]
<1>1. row.offline \in BOOLEAN
  BY RealmAssumption
<1> DEFINE offline == row.offline \/ ~OkBuild(row, c)
                        \/ (Vanilla(c) /\ TooLow(row, c))
           locked == ~Vanilla(c) /\ TooLow(row, c)
<1>2. offline \in BOOLEAN /\ locked \in BOOLEAN
  OBVIOUS
<1>3. Entry(r, row, c) = [realm |-> r, offline |-> offline, locked |-> locked]
  BY DEF Entry
<1> HIDE DEF offline, locked
<1> QED  BY <1>2, <1>3

\* The number announced is a number.
LEMMA NumRealmsType ==
  ASSUME NEW realms \in SUBSET Realm, NEW c
  PROVE  NumRealms(realms, c) \in Nat
<1>1. Cardinality(realms) \in Nat
  BY RealmAssumption, FS_Subset, FS_CardinalityType
<1>2. Uint8 \in Nat \ {0} /\ Uint16 \in Nat \ {0}
  BY RealmAssumption
<1>3. ASSUME NEW n \in Nat, NEW width \in Nat \ {0} PROVE n % width \in Nat
  OBVIOUS
<1> QED  BY <1>1, <1>2, <1>3 DEF NumRealms

\* The number announced is the number of realms when the count has room for it.
LEMMA NumRealmsExact ==
  ASSUME NEW realms, Cardinality(realms) \in Nat, NEW c,
         Cardinality(realms) < Uint8, Cardinality(realms) < Uint16
  PROVE  NumRealms(realms, c) = Cardinality(realms)
<1>1. ASSUME NEW n \in Nat, NEW width \in Nat \ {0}, n < width
      PROVE  n % width = n
  BY <1>1
<1>2. Uint8 \in Nat \ {0} /\ Uint16 \in Nat \ {0}
  BY RealmAssumption
<1> QED  BY <1>1, <1>2 DEF NumRealms

\* A store without realms is consistent, and a snapshot.
LEMMA NoSnapshotConsistent ==
  Consistent(NoSnapshot) /\ NoSnapshot \in Snapshot
<1>1. 0 \in 0 .. MaxClock /\ 0 \in Nat
  BY RealmAssumption
<1> QED  BY <1>1, NoRowsIsTable, BuiltConsistent DEF NoSnapshot

\* The types and the answers before the first request.
LEMMA WritingInit ==
  Init => TypeOK /\ Writing
<1> SUFFICES ASSUME Init PROVE TypeOK /\ Writing
  OBVIOUS
<1>1. Consistent(snapshot) /\ snapshot \in Snapshot
  <2>1. 0 \in 0 .. MaxClock /\ 1 \in Nat
    BY RealmAssumption
  <2> QED  BY <2>1, NoRowsIsTable, BuiltConsistent DEF Init
<1>2. AnyClient \in Client
  BY RealmAssumption DEF AnyClient
<1>3. created \in Seq(0 .. MaxClock) /\ 0 \in 0 .. MaxClock
  BY RealmAssumption DEF Init
<1>4. TypeOK
  BY <1>1, <1>2, <1>3, NoSnapshotConsistent DEF Init, TypeOK, Position
<1>5. Writing
  BY <1>1, NoSnapshotConsistent DEF Init, Writing, WritingOf
<1> QED  BY <1>4, <1>5

\* A thread that a step leaves alone goes on with its answer.
LEMMA WritingKept ==
  ASSUME NEW u \in Thread, WritingOf(u),
         /\ pc'[u] = pc[u] /\ client'[u] = client[u]
         /\ built'[u] = built[u] /\ view'[u] = view[u]
         /\ todo'[u] = todo[u] /\ count'[u] = count[u]
         /\ entries'[u] = entries[u]
  PROVE  WritingOf(u)'
BY DEF WritingOf, Shown

\* Every step keeps the types.
LEMMA ListTypeStep ==
  TypeOK /\ Writing /\ [Next]_vars => TypeOK'
<1> SUFFICES ASSUME TypeOK, Writing, [Next]_vars PROVE TypeOK'
  OBVIOUS
<1>0. Version \in Nat
  BY DEF TypeOK, Version
<1> USE RealmAssumption
    DEF TypeOK, At, GoTo, tableVars, gateVars, requestVars, answerVars
<1>1. ASSUME NEW t \in Thread, UpdateIfNeed(t)
      PROVE  TypeOK'
  <2>1. "gate" \in Position
    BY DEF Position
  <2> QED  BY <1>1, <2>1, SMTT(15) DEF UpdateIfNeed
<1>2. ASSUME NEW t \in Thread, TryLock(t)
      PROVE  TypeOK'
  <2>1. "check" \in Position /\ "load" \in Position
    BY DEF Position
  <2>2. pc' \in [Thread -> Position] /\ owner' \in Thread \cup {NoThread}
    <3>1. pc \in [Thread -> Position] /\ owner \in Thread \cup {NoThread}
      OBVIOUS
    <3> HIDE DEF TypeOK
    <3> QED  BY <1>2, <2>1, <3>1 DEF TryLock
  <2>3. lost' \in [Thread -> BOOLEAN]
    BY <1>2 DEF TryLock
  <2>4. UNCHANGED <<clock, table, created, snapshot, nextUpdate, client, now,
                    floor, built, view, todo, count, entries, answered>>
    BY <1>2 DEF TryLock
  <2> QED  BY <2>2, <2>3, <2>4
<1>3. ASSUME NEW t \in Thread, RunIfDue(t)
      PROVE  TypeOK'
  <2>1. "query" \in Position /\ "load" \in Position
    BY DEF Position
  <2>2. nextUpdate' \in Nat
    BY <1>3 DEF RunIfDue, NextDue
  <2>3. pc' \in [Thread -> Position] /\ owner' \in Thread \cup {NoThread}
    <3>1. pc \in [Thread -> Position] /\ owner \in Thread \cup {NoThread}
      OBVIOUS
    <3> HIDE DEF TypeOK
    <3> QED  BY <1>3, <2>1, <3>1 DEF RunIfDue
  <2>4. UNCHANGED <<clock, table, created, snapshot, client, now, lost, floor,
                    built, view, todo, count, entries, answered>>
    BY <1>3 DEF RunIfDue
  <2> QED  BY <2>2, <2>3, <2>4
<1>4. ASSUME NEW t \in Thread, QueryRealms(t)
      PROVE  TypeOK'
  <2>1. PICK rows \in {table, NoRows} :
          built' = [built EXCEPT ![t] = BuildSnapshot(rows, Version, now[t])]
    BY <1>4 DEF QueryRealms
  <2>2. BuildSnapshot(rows, Version, now[t]) \in Snapshot
    BY <1>0, NoRowsIsTable, BuiltConsistent
  <2>3. "publish" \in Position
    BY DEF Position
  <2> QED  BY <1>4, <2>1, <2>2, <2>3 DEF QueryRealms
<1>5. ASSUME NEW t \in Thread, Publish(t) \/ Unlock(t)
      PROVE  TypeOK'
  <2>1. "unlock" \in Position /\ "load" \in Position
    BY DEF Position
  <2>2. /\ pc' \in [Thread -> Position] /\ owner' \in Thread \cup {NoThread}
        /\ snapshot' \in Snapshot
    <3>1. /\ pc \in [Thread -> Position] /\ owner \in Thread \cup {NoThread}
          /\ snapshot \in Snapshot /\ built \in [Thread -> Snapshot]
      OBVIOUS
    <3> HIDE DEF TypeOK
    <3> QED  BY <1>5, <2>1, <3>1 DEF Publish, Unlock
  <2>3. built' \in [Thread -> Snapshot]
    <3> HIDE DEF NoSnapshot
    <3> QED  BY <1>5, NoSnapshotConsistent DEF Publish, Unlock
  <2>4. UNCHANGED <<clock, table, created, nextUpdate, client, now, lost, floor,
                    view, todo, count, entries, answered>>
    BY <1>5 DEF Publish, Unlock
  <2> QED  BY <2>2, <2>3, <2>4
<1>6. ASSUME NEW t \in Thread, GetRealmsForBuild(t)
      PROVE  TypeOK'
  <2> DEFINE realms == snapshot.realmsByVersion[BelongsToVersion(client[t].build)]
  <2>1. realms \in SUBSET Realm
    BY VersionType DEF Snapshot
  <2>2. /\ todo' = [todo EXCEPT ![t] = realms]
        /\ count' = [count EXCEPT ![t] = NumRealms(realms, client[t])]
    BY <1>6 DEF GetRealmsForBuild
  <2> HIDE DEF realms
  <2>3. NumRealms(realms, client[t]) \in Nat
    BY <2>1, NumRealmsType
  <2>4. "entries" \in Position
    BY DEF Position
  <2>5. todo' \in [Thread -> SUBSET Realm] /\ count' \in [Thread -> Nat]
    BY <2>1, <2>2, <2>3
  <2>6. /\ pc' \in [Thread -> Position] /\ view' \in [Thread -> Snapshot]
        /\ UNCHANGED <<clock, table, created, snapshot, owner, nextUpdate,
                       client, now, lost, floor, built, entries, answered>>
    BY <1>6, <2>4 DEF GetRealmsForBuild
  <2> QED  BY <2>5, <2>6
<1>7. ASSUME NEW t \in Thread, NEW r \in Realm, LoadRealm(t, r)
      PROVE  TypeOK'
  <2>1. pc[t] = "entries" /\ r \in todo[t]
    BY <1>7 DEF LoadRealm
  <2>2. r \in DOMAIN view[t].realms /\ view[t].realms \in Table
    <3>1. WritingOf(t)
      BY DEF Writing
    <3>2. Consistent(view[t]) /\ r \in Shown(t)
      BY <2>1, <3>1 DEF WritingOf
    <3>3. view[t] \in Snapshot
      OBVIOUS
    <3> HIDE DEF TypeOK
    <3> QED  BY <3>2, <3>3, VersionType DEF Consistent, Shown, Snapshot
  <2>3. view[t].realms[r] \in Row
    BY <2>2, TableRows
  <2>4. Entry(r, RowOf(t, r), client[t]) \in
          [realm : Realm, offline : BOOLEAN, locked : BOOLEAN]
    BY <2>3, EntryType DEF RowOf
  <2>5. /\ todo' \in [Thread -> SUBSET Realm]
        /\ entries' \in [Thread -> SUBSET [realm : Realm, offline : BOOLEAN,
                                           locked : BOOLEAN]]
    BY <1>7, <2>4 DEF LoadRealm
  <2> QED  BY <1>7, <2>5 DEF LoadRealm
<1>8. ASSUME NEW t \in Thread, SendRealmList(t)
      PROVE  TypeOK'
  <2>1. AnyClient \in Client
    BY DEF AnyClient
  <2>2. "idle" \in Position
    BY DEF Position
  <2>3. answered' \in Nat
    BY <1>8 DEF SendRealmList, Snapshot
  <2> QED  BY <1>8, <2>1, <2>2, <2>3, NoSnapshotConsistent, SMTT(15) DEF SendRealmList
<1>9. CASE Tick
  BY <1>9 DEF Tick
<1>10. CASE EditTable
  BY <1>10, SMTT(15) DEF EditTable
<1>11. CASE UNCHANGED vars
  BY <1>11 DEF vars
<1> HIDE DEF TypeOK
<1> QED
  BY <1>1, <1>2, <1>3, <1>4, <1>5, <1>6, <1>7, <1>8, <1>9, <1>10, <1>11
  DEF Next, Step

\* Every step keeps the answers in the making.
LEMMA WritingStep ==
  TypeOK /\ Writing /\ [Next]_vars => Writing'
<1> SUFFICES ASSUME TypeOK, Writing, [Next]_vars PROVE Writing'
  OBVIOUS
<1>0. /\ Consistent(snapshot) /\ \A u \in Thread : WritingOf(u)
      /\ pc \in [Thread -> Position] /\ client \in [Thread -> Client]
      /\ built \in [Thread -> Snapshot] /\ view \in [Thread -> Snapshot]
      /\ todo \in [Thread -> SUBSET Realm] /\ count \in [Thread -> Nat]
      /\ DOMAIN entries = Thread /\ DOMAIN now = Thread
      /\ now \in [Thread -> 0 .. MaxClock] /\ Version \in Nat /\ table \in Table
  BY DEF TypeOK, Writing, Version
<1> USE <1>0
    DEF At, GoTo, tableVars, gateVars, requestVars, answerVars
<1>1. ASSUME NEW t \in Thread,
             \/ UpdateIfNeed(t) \/ TryLock(t) \/ RunIfDue(t) \/ Unlock(t)
      PROVE  Writing'
  <2>1. /\ UNCHANGED <<snapshot, built, view, todo, count, entries>>
        /\ \A u \in Thread \ {t} : pc'[u] = pc[u] /\ client'[u] = client[u]
        /\ pc[t] # "entries" /\ pc'[t] # "entries"
    BY <1>1 DEF UpdateIfNeed, TryLock, RunIfDue, Unlock
  <2>2. WritingOf(t)'
    BY <2>1 DEF WritingOf
  <2>3. ASSUME NEW u \in Thread \ {t} PROVE WritingOf(u)'
    BY <2>1, WritingKept
  <2> QED  BY <2>1, <2>2, <2>3 DEF Writing
<1>2. ASSUME NEW t \in Thread, QueryRealms(t)
      PROVE  Writing'
  <2>1. PICK rows \in {table, NoRows} :
          built' = [built EXCEPT ![t] = BuildSnapshot(rows, Version, now[t])]
    BY <1>2 DEF QueryRealms
  <2>2. Consistent(built'[t])
    BY <2>1, NoRowsIsTable, BuiltConsistent
  <2>3. /\ UNCHANGED <<snapshot, view, todo, count, entries, client>>
        /\ pc' = [pc EXCEPT ![t] = "publish"] /\ pc[t] = "query"
    BY <1>2 DEF QueryRealms
  <2>4. WritingOf(t)'
    BY <2>2, <2>3 DEF WritingOf
  <2>5. ASSUME NEW u \in Thread \ {t} PROVE WritingOf(u)'
    BY <2>1, <2>3, WritingKept
  <2> QED  BY <2>3, <2>4, <2>5 DEF Writing
<1>3. ASSUME NEW t \in Thread, Publish(t)
      PROVE  Writing'
  <2>1. /\ UNCHANGED <<view, todo, count, entries, client>>
        /\ pc' = [pc EXCEPT ![t] = "unlock"] /\ pc[t] = "publish"
        /\ snapshot' = built[t] /\ built' = [built EXCEPT ![t] = NoSnapshot]
    BY <1>3 DEF Publish
  <2>2. Consistent(snapshot')
    BY <2>1 DEF WritingOf
  <2>3. WritingOf(t)'
    <3> HIDE DEF NoSnapshot
    <3> QED  BY <2>1, NoSnapshotConsistent DEF WritingOf
  <2>4. ASSUME NEW u \in Thread \ {t} PROVE WritingOf(u)'
    BY <2>1, WritingKept
  <2> QED  BY <2>2, <2>3, <2>4 DEF Writing
<1>4. ASSUME NEW t \in Thread, GetRealmsForBuild(t)
      PROVE  Writing'
  <2> DEFINE realms == snapshot.realmsByVersion[BelongsToVersion(client[t].build)]
  <2>1. /\ todo' = [todo EXCEPT ![t] = realms]
        /\ count' = [count EXCEPT ![t] = NumRealms(realms, client[t])]
        /\ view' = [view EXCEPT ![t] = snapshot]
        /\ pc' = [pc EXCEPT ![t] = "entries"] /\ pc[t] = "load"
        /\ UNCHANGED <<snapshot, built, entries, client>>
    BY <1>4 DEF GetRealmsForBuild
  <2>2. Shown(t)' = realms
    BY <2>1 DEF Shown
  <2> HIDE DEF realms
  <2>3. entries'[t] = {} /\ todo'[t] = realms
        /\ count'[t] = NumRealms(realms, client[t])
    BY <2>1 DEF WritingOf
  <2>4. WritingOf(t)'
    BY <2>1, <2>2, <2>3 DEF WritingOf
  <2>5. ASSUME NEW u \in Thread \ {t} PROVE WritingOf(u)'
    BY <2>1, WritingKept
  <2> QED  BY <2>1, <2>4, <2>5 DEF Writing
<1>5. ASSUME NEW t \in Thread, NEW r \in Realm, LoadRealm(t, r)
      PROVE  Writing'
  <2> DEFINE E(x) == Entry(x, view[t].realms[x], client[t])
  <2>1. /\ todo' = [todo EXCEPT ![t] = todo[t] \ {r}]
        /\ entries' = [entries EXCEPT ![t] = entries[t] \cup {E(r)}]
        /\ pc[t] = "entries" /\ r \in todo[t]
        /\ UNCHANGED <<snapshot, built, view, count, client, pc>>
    BY <1>5 DEF LoadRealm, RowOf
  <2>2. Shown(t)' = Shown(t)
    BY <2>1 DEF Shown
  <2>3. /\ todo[t] \subseteq Shown(t)
        /\ entries[t] = {E(x) : x \in Shown(t) \ todo[t]}
        /\ count[t] = NumRealms(Shown(t), client[t])
        /\ Consistent(built[t]) /\ Consistent(view[t])
    BY <2>1 DEF WritingOf
  <2>4. /\ todo'[t] = todo[t] \ {r} /\ entries'[t] = entries[t] \cup {E(r)}
    BY <2>1
  <2>5. entries'[t] = {E(x) : x \in Shown(t) \ todo'[t]}
    <3> HIDE DEF E
    <3> QED  BY <2>1, <2>3, <2>4
  <2>6. WritingOf(t)'
    <3>1. entries'[t] = {Entry(x, view'[t].realms[x], client'[t]) :
                           x \in Shown(t)' \ todo'[t]}
      BY <2>1, <2>2, <2>5
    <3>2. todo'[t] \subseteq Shown(t)' /\ count'[t] = NumRealms(Shown(t)', client'[t])
      BY <2>1, <2>2, <2>3, <2>4
    <3> QED  BY <2>1, <2>3, <3>1, <3>2 DEF WritingOf
  <2>7. ASSUME NEW u \in Thread \ {t} PROVE WritingOf(u)'
    BY <2>1, WritingKept
  <2> QED  BY <2>1, <2>6, <2>7 DEF Writing
<1>6. ASSUME NEW t \in Thread, SendRealmList(t)
      PROVE  Writing'
  <2>1. /\ view' = [view EXCEPT ![t] = NoSnapshot]
        /\ count' = [count EXCEPT ![t] = 0]
        /\ entries' = [entries EXCEPT ![t] = {}]
        /\ client' = [client EXCEPT ![t] = AnyClient]
        /\ pc' = [pc EXCEPT ![t] = "idle"]
        /\ UNCHANGED <<snapshot, built, todo>>
    BY <1>6 DEF SendRealmList
  <2>2. WritingOf(t)'
    <3> HIDE DEF NoSnapshot
    <3> QED  BY <2>1, NoSnapshotConsistent DEF WritingOf
  <2>3. ASSUME NEW u \in Thread \ {t} PROVE WritingOf(u)'
    BY <2>1, WritingKept
  <2> QED  BY <2>1, <2>2, <2>3 DEF Writing
<1>7. CASE Tick \/ EditTable \/ UNCHANGED vars
  <2>1. UNCHANGED <<snapshot, built, view, todo, count, entries, client, pc>>
    BY <1>7 DEF Tick, EditTable, vars
  <2> QED  BY <2>1, WritingKept DEF Writing
<1> QED
  BY <1>1, <1>2, <1>3, <1>4, <1>5, <1>6, <1>7 DEF Next, Step

\* A finished answer has one entry for each realm shown.
LEMMA OneEntryEach ==
  ASSUME TypeOK, Writing, NEW t \in Thread, At(t, "entries"), todo[t] = {}
  PROVE  /\ {e.realm : e \in entries[t]} = Shown(t)
         /\ Shown(t) \in SUBSET Realm
         /\ IsFiniteSet(Shown(t))
         /\ Cardinality(entries[t]) = Cardinality(Shown(t))
<1> DEFINE E(r) == Entry(r, view[t].realms[r], client[t])
           f == [r \in Shown(t) |-> E(r)]
<1>1. entries[t] = {E(r) : r \in Shown(t)}
  BY DEF Writing, WritingOf, At
<1>2. Shown(t) \in SUBSET Realm
  <2>1. view[t] \in Snapshot
    BY DEF TypeOK
  <2>2. view[t].realmsByVersion \in [RealmVersion -> SUBSET Realm]
    BY <2>1 DEF Snapshot
  <2> QED  BY <2>2, VersionType DEF Shown
<1>3. \A r : E(r).realm = r
  BY DEF Entry
<1>4. IsFiniteSet(Shown(t))
  BY <1>2, RealmAssumption, FS_Subset
<1> HIDE DEF E
<1>5. f \in Bijection(Shown(t), entries[t])
  <2>1. f \in [Shown(t) -> entries[t]]
    BY <1>1
  <2>2. \A a, b \in Shown(t) : f[a] = f[b] => a = b
    BY <1>3
  <2>3. \A e \in entries[t] : \E r \in Shown(t) : f[r] = e
    BY <1>1
  <2> QED  BY <2>1, <2>2, <2>3, Fun_IsBij
<1>6. Cardinality(entries[t]) = Cardinality(Shown(t))
  BY <1>4, <1>5, FS_Bijection DEF ExistsBijection
<1>7. {e.realm : e \in entries[t]} = Shown(t)
  BY <1>1, <1>3
<1> QED  BY <1>2, <1>4, <1>6, <1>7

\* The types and the answers hold together.
LEMMA WritingInvariance ==
  Spec => [](TypeOK /\ Writing)
BY WritingInit, ListTypeStep, WritingStep, PTL DEF Spec

\* The store, the threads' views and what they have written so far keep their
\* types: what a thread writes is always about realms of the table.
THEOREM ListTypes ==
  Spec => []TypeOK
BY WritingInvariance, PTL

\* Whatever the number of realms, the number announced (AuthSocket.cpp 1242,
\* 1314) is the number of entries that follow it, but for a multiple of 2^8 or
\* 2^16.
THEOREM CountModuloWidth ==
  Spec => []AnnouncedModulo
<1>1. ASSUME TypeOK, Writing PROVE AnnouncedModulo
  <2> SUFFICES ASSUME NEW t \in Thread, At(t, "entries"), todo[t] = {}
               PROVE  count[t] = NumRealms(entries[t], client[t])
    BY DEF AnnouncedModulo, NumRealms
  <2>1. count[t] = NumRealms(Shown(t), client[t])
    BY <1>1 DEF Writing, WritingOf, At
  <2>2. Cardinality(entries[t]) = Cardinality(Shown(t))
    BY <1>1, OneEntryEach
  <2> QED  BY <2>1, <2>2 DEF NumRealms
<1> QED  BY <1>1, WritingInvariance, PTL

\* The answer announces as many entries as it has.
AnnouncedExactly ==
  \A t \in Thread : At(t, "entries") /\ todo[t] = {} =>
    count[t] = Cardinality(entries[t])

\* With fewer than 256 realms, which the count has room for in every client's
\* answer, the number announced is the number of entries.
THEOREM CountExact ==
  ASSUME Cardinality(Realm) < Uint8, Cardinality(Realm) < Uint16
  PROVE  Spec => []AnnouncedExactly
<1>1. ASSUME TypeOK, Writing PROVE AnnouncedExactly
  <2> SUFFICES ASSUME NEW t \in Thread, At(t, "entries"), todo[t] = {}
               PROVE  count[t] = Cardinality(entries[t])
    BY DEF AnnouncedExactly
  <2>1. count[t] = NumRealms(Shown(t), client[t])
    BY <1>1 DEF Writing, WritingOf, At
  <2>2. /\ Shown(t) \in SUBSET Realm /\ IsFiniteSet(Shown(t))
        /\ Cardinality(entries[t]) = Cardinality(Shown(t))
    BY <1>1, OneEntryEach
  <2>3. /\ Cardinality(Shown(t)) \in Nat /\ Cardinality(Realm) \in Nat
        /\ Cardinality(Shown(t)) <= Cardinality(Realm)
    BY <2>2, RealmAssumption, FS_Subset, FS_CardinalityType
  <2>4. Uint8 \in Nat /\ Uint16 \in Nat
    BY RealmAssumption
  <2>5. NumRealms(Shown(t), client[t]) = Cardinality(Shown(t))
    <3>1. Cardinality(Shown(t)) < Uint8 /\ Cardinality(Shown(t)) < Uint16
      BY <2>3, <2>4
    <3> QED  BY <2>3, <3>1, NumRealmsExact
  <2> QED  BY <2>1, <2>2, <2>5
<1> QED  BY <1>1, WritingInvariance, PTL

\* An answer describes one version of the table, whatever other threads
\* publish while it is written: an entry for each realm of the client's
\* generation, open exactly where the row admits the client.
THEOREM AnswersAreOneTable ==
  Spec => []AnswerIsOneTable
<1>1. ASSUME TypeOK, Writing PROVE AnswerIsOneTable
  <2> SUFFICES ASSUME NEW t \in Thread, At(t, "entries"), todo[t] = {}
               PROVE  LET rows == view[t].realms
                          c == client[t] IN
                        /\ {e.realm : e \in entries[t]} =
                             {r \in DOMAIN rows :
                                Belongs(rows[r], BelongsToVersion(c.build))}
                        /\ \A e \in entries[t] :
                             ~e.offline /\ ~e.locked <=>
                               /\ ~rows[e.realm].offline
                               /\ c.build \in RealmBuilds(rows[e.realm])
                               /\ c.level >= rows[e.realm].level
    BY DEF AnswerIsOneTable
  <2> DEFINE rows == view[t].realms
             c == client[t]
  <2>1. /\ Consistent(view[t])
        /\ entries[t] = {Entry(r, rows[r], c) : r \in Shown(t)}
    BY <1>1 DEF Writing, WritingOf, At
  <2>2. Shown(t) = {r \in DOMAIN rows :
                      Belongs(rows[r], BelongsToVersion(c.build))}
    BY <2>1, VersionType DEF Consistent, Shown
  <2>3. {e.realm : e \in entries[t]} = Shown(t)
    BY <1>1, OneEntryEach
  <2>4. ASSUME NEW e \in entries[t]
        PROVE  ~e.offline /\ ~e.locked <=>
                 /\ ~rows[e.realm].offline
                 /\ c.build \in RealmBuilds(rows[e.realm])
                 /\ c.level >= rows[e.realm].level
    <3>1. PICK r \in Shown(t) : e = Entry(r, rows[r], c)
      BY <2>1
    <3>2. rows[r] \in Row
      BY <2>1, <2>2, TableRows DEF Consistent
    <3>3. /\ rows[r].level \in 0 .. 3 /\ rows[r].offline \in BOOLEAN
          /\ c.level \in 0 .. 3
      <4>1. c \in Client
        BY <1>1 DEF TypeOK
      <4> QED  BY <3>2, <4>1, RealmAssumption
    <3>4. /\ e.realm = r
          /\ e.offline <=> (rows[r].offline \/ ~OkBuild(rows[r], c)
                              \/ (Vanilla(c) /\ TooLow(rows[r], c)))
          /\ e.locked <=> (~Vanilla(c) /\ TooLow(rows[r], c))
      BY <3>1 DEF Entry
    <3>5. TooLow(rows[r], c) <=> ~(c.level >= rows[r].level)
      BY <3>3 DEF TooLow
    <3>6. OkBuild(rows[r], c) <=> c.build \in RealmBuilds(rows[r])
      BY DEF OkBuild
    <3> HIDE DEF rows, c
    <3> QED  BY <3>4, <3>5, <3>6
  <2> QED  BY <2>2, <2>3, <2>4
<1> QED  BY <1>1, WritingInvariance, PTL

-----------------------------------------------------------------------------
(***************************************************************************)
(* The address in an entry (module RealmAddress), for addresses of any     *)
(* number of bits and any hosts.                                           *)
(***************************************************************************)
CONSTANTS NetBit, HostBit, LoopbackNet, Dotted, Name, HostIp
VARIABLES realm, peer, sent

Address == INSTANCE RealmAddress WITH client <- peer

\* The realm in the snapshot is what the resolver made of its row.
ResolvedFromRow ==
  /\ realm.of \in Address!Row
  /\ realm.external \in Address!ResolveRealmAddress(realm.of.external)
  /\ realm.local \in Address!ResolveRealmAddress(realm.of.local)
  /\ realm.mask \in Address!ResolveRealmAddress(realm.of.mask)

\* UpdateRealm resolves the columns of the row it is given.
LEMMA BuiltFromRow ==
  ASSUME NEW r \in Address!Row, NEW row \in Address!BuildSnapshot(r)
  PROVE  /\ row.of = r
         /\ row.external \in Address!ResolveRealmAddress(r.external)
         /\ row.local \in Address!ResolveRealmAddress(r.local)
         /\ row.mask \in Address!ResolveRealmAddress(r.mask)
BY DEF Address!BuildSnapshot

\* Refreshes are the only steps that change the realm.
LEMMA FromRowInvariance ==
  Address!Spec => []ResolvedFromRow
<1>1. Address!Init => ResolvedFromRow
  BY BuiltFromRow DEF Address!Init, ResolvedFromRow
<1>2. ResolvedFromRow /\ [Address!Next]_(Address!vars) => ResolvedFromRow'
  <2> SUFFICES ASSUME ResolvedFromRow, [Address!Next]_(Address!vars)
               PROVE  ResolvedFromRow'
    OBVIOUS
  <2>1. CASE Address!Refresh
    BY <2>1, BuiltFromRow DEF Address!Refresh, ResolvedFromRow
  <2>2. CASE Address!LoadRealmlist \/ UNCHANGED Address!vars
    <3>1. realm' = realm
      BY <2>2 DEF Address!LoadRealmlist, Address!vars
    <3> QED  BY <3>1 DEF ResolvedFromRow
  <2> QED  BY <2>1, <2>2 DEF Address!Next
<1> QED  BY <1>1, <1>2, PTL DEF Address!Spec

\* The comparison of two addresses under a mask is one of the mask's bits.
LEMMA MaskedBits ==
  ASSUME NEW net, NEW ip, NEW mask
  PROVE  Address!IsIPAddrInNetwork(net, ip, mask) <=>
           \A bit \in mask : bit \in net <=> bit \in ip
BY DEF Address!IsIPAddrInNetwork

\* Unless a name could not be resolved, every client is sent the address meant
\* for it: its own where it and the realm are on this machine, the local one in
\* the realm's network, the external one elsewhere.  That a dotted quad is
\* always resolved is an invariant of the refreshes.
THEOREM ClientsGetBestAddress ==
  Address!Spec => Address!BestAddress
<1> DEFINE of == realm.of
           here == \E h \in {of.local, of.external} : Address!Loopback(HostIp[h])
           Best == IF Address!Loopback(peer') /\ here THEN sent' = peer'
                   ELSE sent' = HostIp[IF Address!SameNetwork(of, peer')
                                            \/ Address!Loopback(peer')
                                       THEN of.local ELSE of.external]
<1>1. ASSUME ResolvedFromRow, Address!LoadRealmlist, Address!NamesResolved(realm)
      PROVE  Best
  <2>1. /\ realm.external = HostIp[of.external]
        /\ realm.local = HostIp[of.local]
        /\ realm.mask = HostIp[of.mask]
    BY <1>1 DEF ResolvedFromRow, Address!NamesResolved,
                Address!ResolveRealmAddress
  <2>2. sent' = Address!GetAddressForClient(realm, peer')
    BY <1>1 DEF Address!LoadRealmlist
  <2>3. Address!SameNetwork(of, peer') <=>
          Address!IsIPAddrInNetwork(realm.local, peer', realm.mask)
    BY <2>1, MaskedBits DEF Address!SameNetwork
  <2>4. here <=> Address!Loopback(realm.local) \/ Address!Loopback(realm.external)
    BY <2>1
  <2> HIDE DEF of, here
  <2> QED  BY <2>1, <2>2, <2>3, <2>4 DEF Address!GetAddressForClient
<1>2. ResolvedFromRow /\ [Address!Next]_(Address!vars) =>
        [Address!LoadRealmlist /\ Address!NamesResolved(realm) => Best]_(Address!vars)
  BY <1>1
<1> QED  BY <1>2, FromRowInvariance, PTL DEF Address!Spec, Address!BestAddress
=============================================================================

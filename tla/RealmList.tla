------------------------------ MODULE RealmList ------------------------------
(***************************************************************************)
(* The realm list: a snapshot of the `realmlist` table that network        *)
(* threads share, replaced as a whole by the request that finds it too old *)
(* (Realm/RealmList, Realm/RealmSnapshot), and the answer a request makes  *)
(* from it (AuthSocket::LoadRealmlist).                                    *)
(*                                                                         *)
(* A request runs on its session's network thread.  It reads the time,     *)
(* tries the gate's mutex, and under the mutex decides whether a refresh   *)
(* is due, queries and publishes.  It then loads the snapshot once and     *)
(* writes one entry per realm, with a query for each, while other requests *)
(* may publish.                                                            *)
(*                                                                         *)
(* A row keeps what decides who sees the realm: the numbers in             *)
(* `realmbuilds`, `allowedSecurityLevel` and REALM_FLAG_OFFLINE.  Rows the *)
(* query leaves out are not in the table.  The widths of the count that    *)
(* precedes the entries are constants, so that few realms can exceed them. *)
(***************************************************************************)
EXTENDS ClientBuildPolicy, Sequences, FiniteSets

CONSTANTS
  Realm,            \* names of realms
  Row,              \* what a row may hold
  Thread,           \* network threads
  NoThread,
  Client,           \* builds and security levels of sessions
  UpdateInterval,   \* RealmsStateUpdateDelay; 0 disables refreshes
  Uint8, Uint16,    \* how many values these types have: 256 and 65536
  MaxClock,         \* bound: the clock stops here
  MaxEdits          \* bound: how often the table changes

ASSUME RealmAssumption ==
  /\ IsFiniteSet(Realm)
  /\ Row \subseteq [builds : Seq(Nat), level : 0 .. 3, offline : BOOLEAN]
  /\ Client \subseteq [build : Nat, level : 0 .. 3]
  /\ Client # {}
  /\ NoThread \notin Thread
  /\ Uint8 \in Nat \ {0} /\ Uint16 \in Nat \ {0}
  /\ UpdateInterval \in Nat /\ MaxClock \in Nat /\ MaxEdits \in Nat

VARIABLES
  clock,
  table,            \* `realmlist`, a function on the realms that have a row
  created,          \* history: when each version of the table came to be
  snapshot,         \* RealmSnapshotStore::m_snapshot
  owner,            \* holder of RealmRefreshGate::m_mutex
  nextUpdate,       \* RealmRefreshGate::m_nextUpdate
  pc,               \* position of each thread in _HandleRealmList
  client,           \* the session the thread serves
  now,              \* the time it passed to RunIfDue
  lost,             \* it found the mutex taken
  built,            \* the snapshot it has built and not yet published
  view,             \* the snapshot its RealmListView holds
  todo,             \* realms of the view without an entry yet
  count,            \* the number of realms it has written
  entries,          \* the entries it has written
  floor,            \* history: the newest version answered before it began
  answered          \* history: the newest version answered

tableVars == <<table, created>>
gateVars == <<owner, nextUpdate>>
requestVars == <<client, now, lost, floor>>
answerVars == <<view, todo, count, entries>>
vars == <<clock, tableVars, snapshot, gateVars, pc, requestVars, built,
          answerVars, answered>>

Table == UNION {[names -> Row] : names \in SUBSET Realm}

\* The table has as many versions as `created` has entries.
Version == Len(created)

-----------------------------------------------------------------------------
(* UpdateRealm, AddRealmToBuildList and BuildSnapshot.                     *)

\* Realm::realmbuilds is a std::set: the column's order is lost.
RealmBuilds(row) == {row.builds[i] : i \in DOMAIN row.builds}

Begin(builds) == CHOOSE b \in builds : \A c \in builds : b <= c

\* first_build has 16 bits.
FirstBuild(row) ==
  IF RealmBuilds(row) = {} THEN 0 ELSE Begin(RealmBuilds(row)) % 65536

\* The generation AddRealmToBuildList files the realm under.
FiledUnder(row) == BelongsToVersion(Begin(RealmBuilds(row)))

\* asOf and at are history: the version of the table the query saw, and the
\* time the refresh was found due at.
BuildSnapshot(rows, asOf, at) ==
  [asOf |-> asOf, at |-> at,
   realms |-> rows,
   realmsByVersion |->
     [v \in RealmVersion |->
        {r \in DOMAIN rows : FirstBuild(rows[r]) # 0
                               /\ FiledUnder(rows[r]) = v}]]

\* A query that fails looks like one without rows.
NoRows == <<>>

-----------------------------------------------------------------------------
(* The entry LoadRealmlist writes for a realm.                             *)

OkBuild(row, c) == c.build \in RealmBuilds(row)
TooLow(row, c) == row.level > c.level

\* 1.x clients know no locked realms and are shown an offline one.
Vanilla(c) == c.build \in {5875, 6005, 6141}

\* Mutation of NumRealms: the number is not cut.
NumRealmsUncut(realms, c) == Cardinality(realms)

\* The number of realms is written with 8 bits, for later clients with 16.
NumRealms(realms, c) ==
  Cardinality(realms) % (IF Vanilla(c) THEN Uint8 ELSE Uint16)

Entry(r, row, c) ==
  [realm |-> r,
   offline |-> row.offline \/ ~OkBuild(row, c)
                 \/ (Vanilla(c) /\ TooLow(row, c)),
   locked |-> ~Vanilla(c) /\ TooLow(row, c)]

-----------------------------------------------------------------------------
(* State.                                                                  *)

Snapshot ==
  [asOf : Nat, at : 0 .. MaxClock, realms : Table,
   realmsByVersion : [RealmVersion -> SUBSET Realm]]

Position == {"idle", "gate", "check", "query", "publish", "unlock",
             "load", "entries"}

TypeOK ==
  /\ clock \in 0 .. MaxClock
  /\ table \in Table
  /\ created \in Seq(0 .. MaxClock)
  /\ snapshot \in Snapshot
  /\ owner \in Thread \cup {NoThread}
  /\ nextUpdate \in Nat
  /\ pc \in [Thread -> Position]
  /\ client \in [Thread -> Client]
  /\ now \in [Thread -> 0 .. MaxClock]
  /\ lost \in [Thread -> BOOLEAN]
  /\ floor \in [Thread -> Nat]
  /\ built \in [Thread -> Snapshot]
  /\ view \in [Thread -> Snapshot]
  /\ todo \in [Thread -> SUBSET Realm]
  /\ count \in [Thread -> Nat]
  /\ entries \in [Thread -> SUBSET [realm : Realm, offline : BOOLEAN,
                                    locked : BOOLEAN]]
  /\ answered \in Nat

\* The store before anything is published, which stands for "no snapshot"
\* in a thread that holds none.
NoSnapshot == BuildSnapshot(NoRows, 0, 0)

AnyClient == CHOOSE c \in Client : TRUE

\* Initialize has run, on the main thread, before a connection is accepted.
Init ==
  /\ clock = 0
  /\ table \in Table
  /\ created = <<0>>
  /\ snapshot \in {BuildSnapshot(table, 1, 0), BuildSnapshot(NoRows, 1, 0)}
  /\ owner = NoThread
  /\ nextUpdate = clock
  /\ pc = [t \in Thread |-> "idle"]
  /\ client = [t \in Thread |-> AnyClient]
  /\ now = [t \in Thread |-> 0]
  /\ lost = [t \in Thread |-> FALSE]
  /\ floor = [t \in Thread |-> 0]
  /\ built = [t \in Thread |-> NoSnapshot]
  /\ view = [t \in Thread |-> NoSnapshot]
  /\ todo = [t \in Thread |-> {}]
  /\ count = [t \in Thread |-> 0]
  /\ entries = [t \in Thread |-> {}]
  /\ answered = 0

-----------------------------------------------------------------------------
(* A realm list request.                                                   *)

At(t, position) == pc[t] = position
GoTo(t, position) == pc' = [pc EXCEPT ![t] = position]

\* The request reaches UpdateIfNeed, which reads the time.
UpdateIfNeed(t) ==
  /\ At(t, "idle")
  /\ \E c \in Client : client' = [client EXCEPT ![t] = c]
  /\ now' = [now EXCEPT ![t] = clock]
  /\ floor' = [floor EXCEPT ![t] = answered]
  /\ GoTo(t, "gate")
  /\ UNCHANGED <<clock, tableVars, snapshot, gateVars, lost, built, answerVars,
                 answered>>

\* Mutations of TryLock: the mutex keeps nobody out, and is waited for.
LockAlways(t) ==
  /\ At(t, "gate")
  /\ owner' = t
  /\ GoTo(t, "check")
  /\ UNCHANGED <<clock, tableVars, snapshot, nextUpdate, requestVars, built,
                 answerVars, answered>>

LockWhenFree(t) ==
  /\ At(t, "gate")
  /\ owner = NoThread
  /\ owner' = t
  /\ GoTo(t, "check")
  /\ UNCHANGED <<clock, tableVars, snapshot, nextUpdate, requestVars, built,
                 answerVars, answered>>

\* RunIfDue tries the mutex and goes on without it.
TryLock(t) ==
  /\ At(t, "gate")
  /\ \/ owner = NoThread /\ owner' = t /\ GoTo(t, "check") /\ UNCHANGED lost
     \/ /\ owner # NoThread
        /\ lost' = [lost EXCEPT ![t] = TRUE]
        /\ GoTo(t, "load")
        /\ UNCHANGED owner
  /\ UNCHANGED <<clock, tableVars, snapshot, nextUpdate, client, now, floor,
                 built, answerVars, answered>>

\* Mutation of Due: a refresh is due one second late.
DueLate(t) == UpdateInterval # 0 /\ nextUpdate < now[t]

Due(t) == UpdateInterval # 0 /\ nextUpdate <= now[t]

\* Mutation of NextDue: the interval is taken off.
NextDueBefore(t) == now[t] - UpdateInterval

\* Mutation of NextDue: two intervals are added.
NextDueTwice(t) == now[t] + 2 * UpdateInterval

NextDue(t) == now[t] + UpdateInterval

\* Under the mutex: the next update is put off before the refresh runs.
RunIfDue(t) ==
  /\ At(t, "check")
  /\ \/ /\ Due(t)
        /\ nextUpdate' = NextDue(t)
        /\ GoTo(t, "query")
        /\ UNCHANGED owner
     \/ ~Due(t) /\ owner' = NoThread /\ GoTo(t, "load") /\ UNCHANGED nextUpdate
  /\ UNCHANGED <<clock, tableVars, snapshot, requestVars, built, answerVars,
                 answered>>

\* Mutation of QueryRealms: the mutex is released before the query.
QueryUnlocked(t) ==
  /\ At(t, "query")
  /\ built' = [built EXCEPT ![t] = BuildSnapshot(table, Version, now[t])]
  /\ owner' = NoThread
  /\ GoTo(t, "publish")
  /\ UNCHANGED <<clock, tableVars, snapshot, nextUpdate, requestVars,
                 answerVars, answered>>

\* SELECT from `realmlist`.
QueryRealms(t) ==
  /\ At(t, "query")
  /\ \E rows \in {table, NoRows} :
       built' = [built EXCEPT ![t] = BuildSnapshot(rows, Version, now[t])]
  /\ GoTo(t, "publish")
  /\ UNCHANGED <<clock, tableVars, snapshot, gateVars, requestVars, answerVars,
                 answered>>

Publish(t) ==
  /\ At(t, "publish")
  /\ snapshot' = built[t]
  /\ built' = [built EXCEPT ![t] = NoSnapshot]
  /\ GoTo(t, "unlock")
  /\ UNCHANGED <<clock, tableVars, gateVars, requestVars, answerVars, answered>>

Unlock(t) ==
  /\ At(t, "unlock")
  /\ owner' = NoThread
  /\ GoTo(t, "load")
  /\ UNCHANGED <<clock, tableVars, snapshot, nextUpdate, requestVars, built,
                 answerVars, answered>>

\* GetRealmsForBuild: the view keeps the snapshot it was made from.
GetRealmsForBuild(t) ==
  /\ At(t, "load")
  /\ LET realms == snapshot.realmsByVersion[BelongsToVersion(client[t].build)]
     IN /\ todo' = [todo EXCEPT ![t] = realms]
        /\ count' = [count EXCEPT ![t] = NumRealms(realms, client[t])]
  /\ view' = [view EXCEPT ![t] = snapshot]
  /\ GoTo(t, "entries")
  /\ UNCHANGED <<clock, tableVars, snapshot, gateVars, requestVars, built,
                 entries, answered>>

\* Mutation of RowOf: the newest snapshot is asked where it can be.
NewestRowOf(t, r) ==
  IF r \in DOMAIN snapshot.realms THEN snapshot.realms[r] ELSE view[t].realms[r]

RowOf(t, r) == view[t].realms[r]

\* LoadRealmlist writes an entry.
LoadRealm(t, r) ==
  /\ At(t, "entries")
  /\ r \in todo[t]
  /\ todo' = [todo EXCEPT ![t] = @ \ {r}]
  /\ entries' = [entries EXCEPT ![t] =
                   @ \cup {Entry(r, RowOf(t, r), client[t])}]
  /\ UNCHANGED <<clock, tableVars, snapshot, gateVars, pc, requestVars, built,
                 view, count, answered>>

\* The answer is sent and the handler returns; its locals are forgotten.
SendRealmList(t) ==
  /\ At(t, "entries")
  /\ todo[t] = {}
  /\ answered' = IF view[t].asOf > answered THEN view[t].asOf ELSE answered
  /\ client' = [client EXCEPT ![t] = AnyClient]
  /\ now' = [now EXCEPT ![t] = 0]
  /\ lost' = [lost EXCEPT ![t] = FALSE]
  /\ floor' = [floor EXCEPT ![t] = 0]
  /\ view' = [view EXCEPT ![t] = NoSnapshot]
  /\ count' = [count EXCEPT ![t] = 0]
  /\ entries' = [entries EXCEPT ![t] = {}]
  /\ GoTo(t, "idle")
  /\ UNCHANGED <<clock, tableVars, snapshot, gateVars, built, todo>>

-----------------------------------------------------------------------------
(* The system.                                                             *)

Tick ==
  /\ clock < MaxClock
  /\ clock' = clock + 1
  /\ UNCHANGED <<tableVars, snapshot, gateVars, pc, requestVars, built,
                 answerVars, answered>>

\* A world server or an administrator changes the table.
EditTable ==
  /\ Version <= MaxEdits
  /\ \E rows \in Table \ {table} : table' = rows
  /\ created' = Append(created, clock)
  /\ UNCHANGED <<clock, snapshot, gateVars, pc, requestVars, built, answerVars,
                 answered>>

\* The steps of a request that has begun.
Step(t) ==
  \/ TryLock(t) \/ RunIfDue(t) \/ QueryRealms(t) \/ Publish(t) \/ Unlock(t)
  \/ GetRealmsForBuild(t)
  \/ \E r \in Realm : LoadRealm(t, r)
  \/ SendRealmList(t)

Next ==
  \/ \E t \in Thread : UpdateIfNeed(t) \/ Step(t)
  \/ Tick
  \/ EditTable

Spec == Init /\ [][Next]_vars

-----------------------------------------------------------------------------
(* Properties.                                                             *)

\* The realms of a generation, said without the store: those whose smallest
\* build, taken as 16 bits, is not zero and belongs to it.
Belongs(row, version) ==
  \E b \in RealmBuilds(row) :
    /\ \A c \in RealmBuilds(row) : b <= c
    /\ b % 65536 # 0
    /\ BelongsToVersion(b) = version

\* An answer describes one version of the table, though other requests
\* publish while it is written (AuthSocket.cpp 1230-1384): it has an entry for
\* each realm of the client's generation, and offers a realm as open only to a
\* build and a level its row admits.
AnswerIsOneTable ==
  \A t \in Thread : At(t, "entries") /\ todo[t] = {} =>
    LET rows == view[t].realms
        c == client[t] IN
      /\ {e.realm : e \in entries[t]} =
           {r \in DOMAIN rows : Belongs(rows[r], BelongsToVersion(c.build))}
      /\ \A e \in entries[t] :
           ~e.offline /\ ~e.locked <=>
             /\ ~rows[e.realm].offline
             /\ c.build \in RealmBuilds(rows[e.realm])
             /\ c.level >= rows[e.realm].level

\* The number written before the entries (AuthSocket.cpp 1242, 1314) is the
\* number of entries that follow it, cut to its 8 or 16 bits, whatever other
\* requests publish while the entries are written.
AnnouncedModulo ==
  \A t \in Thread : At(t, "entries") /\ todo[t] = {} =>
    count[t] =
      Cardinality(entries[t]) % (IF Vanilla(client[t]) THEN Uint8 ELSE Uint16)

\* The list never goes back to an older version of the table: refreshes do not
\* overtake one another between their query and their publication
\* (RealmSnapshot.h 154-165, RealmList.cpp 203-206).
NeverBackwards == [][snapshot'.asOf >= snapshot.asOf]_vars

\* No client sees the list go back: a request answers with a version at
\* least as new as any answer sent before it began, whichever thread sent it.
SeesProgress ==
  \A t \in Thread : At(t, "entries") => view[t].asOf >= floor[t]

\* "updated at realm list request if delay expired" (realmd.conf.dist.in
\* 115): a request that was not turned away at the mutex answers with every
\* change that was a full interval old when it read the time.
FreshEnough ==
  \A t \in Thread : At(t, "entries") /\ ~lost[t] /\ UpdateInterval > 0 =>
    \A v \in DOMAIN created :
      created[v] + UpdateInterval <= now[t] => v <= view[t].asOf

\* Whatever a refresh put into the store, the empty list of a query that failed
\* included (RealmList.cpp 215-218), is answered with for less than an
\* interval: a request that was not turned away at the mutex looks at a
\* refresh that was due less than an interval before its own time.
OutageIsShort ==
  \A t \in Thread : At(t, "entries") /\ ~lost[t] /\ UpdateInterval > 0 =>
    view[t].at + UpdateInterval > now[t]

\* A request is never held up by another's refresh (RealmSnapshot.h 156): it
\* ends if its own thread keeps running, whatever the other threads do.
RequestEnds ==
  \A t \in Thread :
    WF_vars(Step(t)) => (pc[t] # "idle" ~> pc[t] = "idle")

\* "if you set more than one build the first one found in there will be used,
\* so if you tag a realm as this: "8606 6141" only TBC clients will be able to
\* see the realm" (RealmList.h 79-82): an answer only shows realms whose first
\* build is of the client's generation.
FirstBuildDecides ==
  \A t \in Thread : At(t, "entries") =>
    \A e \in entries[t] :
      BelongsToVersion(view[t].realms[e.realm].builds[1]) =
        BelongsToVersion(client[t].build)
=============================================================================

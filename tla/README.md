# realmd in TLA+

A formal model of realmd, the login server of MaNGOS: TLA+ modules for its
parts, TLC configurations that check small instances, and TLAPS proofs that hold
for instances of any size. `PROJECT.json` holds the same information for tools:
which lines each definition models, the runs, the hazards, the findings.

## The system

| Part | Source | Module | State |
|---|---|---|---|
| Session and handlers | `Auth/AuthSocket`, `Auth/AuthCodes.h` | `AuthSocket` | modelled |
| Framing of input | `AuthSocket::onData` | `AuthStream` | modelled |
| Protocol guard, deadline | `Auth/AuthProtocolGuard` | `AuthProtocolGuard`, `AuthServer` | modelled |
| Server, registry, sweep | `Auth/AuthServer` | `AuthServer` | modelled |
| Login database | not in the repository | `LoginDatabase` | external |
| Realm list | `Realm/RealmList`, `Realm/RealmSnapshot.h` | `RealmList` | modelled |
| Build table | `Realm/ClientBuildPolicy` | `ClientBuildPolicy` | modelled |
| Locked-account result | `Auth/AuthResultPolicy` | `ClientBuildPolicy` | modelled |
| Patch policy | `Auth/PatchPolicy` | `ClientBuildPolicy`, `MainLoop` | decision and start-up |
| Patch streaming, archive | `Auth/PatchHandler`, `Auth/PatchArtifact` | `PatchTransfer` | modelled |
| Main loop, exit, signals | `Main.cpp` | `MainLoop`, `AuthServer` | modelled |
| Address selection | `ResolveRealmAddress`, `ParseClientIPv4`, `GetAddressForClient` | `RealmAddress` | modelled |
| Client locale | `Auth/ClientLocale` | | not modelled |
| SRP6 arithmetic | `AuthSocket` | `AuthSocket` | outcome only |

Four kinds of threads meet in it. The *network threads* of the transport create
a session per connection, deliver its input and run its handlers; one session is
never on two of them at once. The *main thread* wakes every 100 ms, takes
references to all sessions, and closes those whose authentication deadline has
passed. The *delay thread* of the database layer executes the statements queued
with `PExecute`, while queries and `DirectPExecute` run at once on the caller's
thread. A *patch thread*, detached, streams an archive to one client.

## The modules

**`ClientBuildPolicy`** — pure operators: the table of supported builds, the
generation of a build, whether it has to be patched, how a locked account is
refused.

**`LoginDatabase`** — the tables as far as sessions read and write them, the
queue of the delay thread, and what happens without realmd: accounts are deleted
and bans run out. External, modelled from the calls in `src/`. It assumes that a
query answers; a checked UPDATE may fail, without effect, and succeeds on a row
that is gone. `published` is a history variable: the sessions whose checked
UPDATE reached the account's row.

**`AuthSocket`** — the session: `_status`, `m_closed`, deadline, claim, key,
archive, counters, and one action per handler. `pc[s]` is the position of the
network thread inside a handler. A handler is cut wherever another thread can
see or change what it works on: at each query, each checked UPDATE, each reply
that matters to one, each change of the deadline. Session keys are named after
the session that computed them. Whether a proof matches is a choice: there is an
action for either case.

**`AuthServer`** — composes sessions and database with the registry, the sweep
and the clock. A sweep is five actions: prune and take references under the
mutex, read the clock, ask a session, close it, drop the references. Asking and
closing are two steps because `ExpireAuthentication` holds nothing in between.

**`AuthProtocolGuard`** — `InspectFrame` and `CanAppendPending` as operators on
what the guard reads of a frame, with the sizes and offsets of the source.

**`AuthStream`** — `onData`: a piece is appended or refused, then the loop tests
`m_closed`, inspects, dispatches through the table, compares the length
consumed, and drops what was consumed. A handler is its outcome here (next
state, success). The stream is chosen in the initial state and delivered in
pieces that end anywhere in `Cut`. The transport's pieces are assumed to fit
behind the longest incomplete valid frame (`PieceAssumption`).

**`RealmList`** — the snapshot store, the refresh gate and a realm list request:
read the time, try the mutex, decide, query, publish, unlock, load the view,
write an entry per realm, send. The table is edited by others meanwhile. A query
may fail, which looks like an empty table. How many values the types of the count
have (`uint8` for 1.x clients, `uint16` later) are constants.

**`RealmAddress`** — the three addresses of a realm, resolved when a snapshot is
built, and the choice between them for each client. An address is the set of the
bits that are 1 in it, so that a mask is an intersection; a host that is a name may
fail to resolve, and is then kept as address 0 until the next refresh.

**`PatchTransfer`** — one transfer from `OfferPatch` to the end of the detached
thread: the archive is opened in two steps (its size, then its digest), offered,
accepted or resumed at an offset, and read chunk by chunk; each chunk waits for
the backlog, becomes a frame and is handed to the transport. Meanwhile other
archives are renamed over the path, reads fail, the client reads slowly or not
at all, and the connection ends. The `i`-th byte of an archive is named by the
archive and `i`, so that a byte out of place or of another file is told apart. A
file may also be resized where it stands, which `realmd.conf.dist.in` asks
operators not to do; from then on nothing is promised. A session whose transport
gave it no flow control is part of the model (`flow`).

**`MainLoop`** — the process: each step of `main` that can fail, stop it, start
or end a thread or queue a statement; network workers that accept connections or
run handlers; the delay thread; signals, service commands, the clock and a
supervisor that starts the process again. `CheckScheduledExit` is one action: a
signal in the middle of it only sets `stopEvent`, which the function sets itself.

**`AuthSession`, `PatchDelivery`** — abstract specifications: what a session
promises its client (one challenge, one verdict, a welcome only after the grant,
no other change of a key, nothing after the close) and what a transfer promises
(the bytes of the archive offered, once each and in order, complete or over).
`AuthRefinement` maps `AuthServer` to the first; `PatchTransfer` maps itself to
the second (`Phase`).

**`MCAuthServer`, `MCAuthStream`, `MCRealmList`, `MCRealmAddress`,
`MCPatchTransfer`, `MCMainLoop`** — values of the constants. `MCAuthServer` also
narrows the initial database and can leave sweeps or reconnects out of an
instance (`Bounded`) where the question does not need them.

**`AuthStepProofs`, `AuthServerProofs`, `AuthCountProofs`, `AuthStreamProofs`,
`RealmListProofs`, `RealmAnswerProofs`, `PatchTransferProofs`,
`MainLoopProofs`** — the proofs.

Definitions whose comment begins with "Mutation of" are deliberate faults. None
is used by a specification; each replaces a definition to see that a property
notices.

## What is checked

| Run | Checks | Distinct states |
|---|---|---|
| `AuthKeys` | `SuccessIsPublished`, `AuthedKeyWasIssued`, `PublishedKeyIsProven`, `CountersExact`, `LockedAddressKept`, `KeepsPromises` | 528,304 |
| `AuthDeadline` | `TypeOK`, `CountersExact`, `OnePatchTransfer`, `InTimeIsExempt`, `KeepsPromises`, `UnauthenticatedEnds`, `ClosedIsForgotten` | 186,652 |
| `AuthThrottle` | `NoEarlyBan` | 731,882 |
| `AuthStream` | `TypeOK`, `CutsDoNotMatter`, `GuardSuffices`, `AtMostOneLate` | 91,975 |
| `RealmAnswers` | `TypeOK`, `AnswerIsOneTable`, `AnnouncedModulo` | 1,453,761 |
| `RealmRefresh` | `SeesProgress`, `FreshEnough`, `OutageIsShort`, `NeverBackwards`, `RequestEnds` | 272,223 |
| `RealmAddresses` | `BestAddress` | 19,000 |
| `PatchStreams` | `TypeOK`, `BacklogBounded`, `AtMostOneLateFrame`, `DeliversAdvertised`, `EndReleasesThread` | 346,488 |
| `MainProcess` | `TypeOK`, `NoStatementLost`, `NoRestartLoop`, `ExitCodeIsCause`, `NoCircularWait`, `StopIsHonoured` | 110,632 |
| `AuthExempt` | `ExemptFromTimeout`, violated | |
| `AuthBanLimit` | `BannedAtLimit`, violated | |
| `RealmBuilds` | `FirstBuildDecides`, violated | |

Run one with `tlc -config AuthKeys.cfg MCAuthServer` (the others likewise; the
module of each is in `PROJECT.json`).

**Sessions and keys (`AuthKeys`).** Two sessions from two addresses and one
locked account that may be missing, be deleted or be banned, as may the
addresses. Two sessions suffice for every race of a logon with a logon or with a
reconnect, because a session runs one exchange and all contention is on one
account's row. The clock stands still; deadlines have their own run.
`KeepsPromises` is `AuthSession` under the mapping of `AuthRefinement`; both
runs check it, this one for racing grants, the next one for sweeps and patch
offers.

**Deadlines and patches (`AuthDeadline`).** One session, three builds (supported,
supported but forced to patch, unknown), a timeout of one and a clock up to two, a
`gmlevel` beyond the highest. Sweeps concern sessions one at a time, so one
session meets every order of sweep and handler. The liveness properties assume
weak fairness of the sweep (the main loop runs for ever), of the clock, of a
handler that has begun (its database calls return), of the transport once it was
asked to close, and of destruction once the last reference is gone. Nothing is
assumed of clients. No symmetry is used.

**Throttling (`AuthThrottle`).** Three sessions and a limit of two, so that the
limit can be reached, passed, or reset by a success in between; bans run out.
Sessions are symmetric.

**Framing (`AuthStream`).** 296 streams of two to four frames: every exchange the
protocol has with every outcome of its handlers, and frames refused at their
first byte, their header, their key count or their end, among them a challenge
that announces 65535 bytes and fills the buffer. Pieces end around every length
the guard compares with. The reference definition (`After`, `ClosedBy`) knows
neither buffer nor pieces.

**Realm list (`RealmAnswers`, `RealmRefresh`).** Two threads suffice for each
race at the gate: one inside, one outside. Answers are checked with two realms
and clients of two generations, and with counts of two and three values in place of
256 and 65536, so that two realms pass the first and not the second; refreshes with an edit of the table, which makes
an old and a new version, and a clock up to two. `RequestEnds` assumes weak
fairness of the request's own thread only, so it also says that no request waits
for another.

A failed query publishes an empty list; `OutageIsShort` bounds how long requests
that get into the gate are answered with it.

**Addresses (`RealmAddresses`).** Addresses have five bits in place of 32,
two of them the network. All rows made of two networks, a loopback
address, a name that may not resolve and a mask of three bits, with every client
there is. `BestAddress` is stated bit by bit and knows no mask operation.

**Patches (`PatchStreams`).** Chunks of two bytes, a ceiling of
four and a header of one, archives of seven and six bytes: one ends within a
chunk and one with it, the ceiling is reached and passed, and every offset from
0 to one behind the end is asked for. One archive may be changed in place once,
to any length. `EndReleasesThread` assumes weak fairness of the streaming thread
alone: a thread that can run does. Nothing is assumed of client or transport.

**The process (`MainProcess`).** Two workers, two statements waiting at most,
three minutes of which the middle one is scheduled, and one restart, which
suffices for a second start in the same minute. `NoCircularWait` says that no two
threads wait for each other: `AuthServer::Stop` joins the workers, and a worker in
the session factory waits for the mutex the main thread takes. `StopIsHonoured`
assumes weak
fairness of the main thread, of the delay thread and of a worker's callback that
has begun. It assumes nothing of signals or service commands: the property
speaks of stops that were asked for.

Sessions, transfers and the process end for good, so the runs of `AuthServer`,
`AuthStream`, `PatchTransfer` and `MainLoop` do not look for deadlocks; those of
`RealmList` and `RealmAddress` do. That a shutdown does not get stuck is
`StopIsHonoured`.

### Where code and documentation differ

* `AuthExempt`: `realmd.conf.dist.in` says that authenticated sessions and patch
  transfers are exempt from the timeout. A handler that authenticates the
  session after the sweep has asked its deadline, and before it closes, loses
  it. `InTimeIsExempt` says how far the sentence is true: a session disarmed
  before its deadline is never closed by it.
* `AuthBanLimit`: a comment says that an account that reaches the limit of wrong
  passwords is banned. The increment is queued and the counter read at once, so
  the ban may come one wrong password late, or never. It never comes early
  (`NoEarlyBan`).
* `RealmBuilds`: `RealmList.h` says that the first build of a realm decides who
  sees it. The builds are kept in a `std::set`; the smallest decides.

Three more sentences of the repository are true with a reservation, and the
properties state the part that is:

* A comment in `PatchHandler.cpp` says that the streaming thread does not get
  further ahead of the socket than the ceiling. The backlog is compared before a
  frame is added, so it can pass the ceiling by less than a frame
  (`BacklogBounded`).
* `PatchHandler.h` says that the connection is closed if the archive cannot be
  fully read. An archive truncated in place ends without a read error and the
  connection stays open; `DeliversAdvertised` promises nothing once a file was
  changed in place.
* A comment in `GetAddressForClient` says that the local address is for clients of
  the same network. A mask that cannot be resolved is kept as 0.0.0.0, which every
  client matches; `BestAddress` speaks of realms whose names were all resolved.

## What is proved

### Sessions

`AuthStepProofs`, and `AuthServerProofs` and `AuthCountProofs`, which extend it,
prove for any sets of sessions, accounts, addresses and builds, any timeout and
any limit of wrong passwords, from the assumptions named in `LoginDatabase`, `AuthSocket` and `AuthServer` (keys and
names are distinct, constants have their types):

| Theorem | Statement | Module |
|---|---|---|
| `TypeCorrect` | `Spec => []TypeOK` | `AuthStepProofs` |
| `SuccessPublished` | `Spec => []SuccessIsPublished` | `AuthStepProofs` |
| `AuthedKeyIssued` | `Spec => []AuthedKeyWasIssued` | `AuthStepProofs` |
| `PublishedKeyProven` | `Spec => []PublishedKeyIsProven` | `AuthStepProofs` |
| `Invariance` | `Spec => []IInv` | `AuthServerProofs` |
| `LockedAddressIsKept` | `Spec => LockedAddressKept` | `AuthServerProofs` |
| `OnePatchPerSession` | `Spec => []OnePatchTransfer` | `AuthServerProofs` |
| `InTimeExempt` | `Spec => []InTimeIsExempt` | `AuthServerProofs` |
| `Refinement` | `Spec => KeepsPromises` | `AuthServerProofs` |
| `CountersAreExact` | `Spec => []CountersExact` | `AuthCountProofs` |
| `NobodyIsBannedEarly` | `Spec => []NoEarlyBan` | `AuthCountProofs` |

None of the properties is inductive, because what a handler does next depends on
where it stands. The invariant adds, conjunct by conjunct, what the positions know.
`Base`, of `AuthStepProofs`, is `TypeOK` and the first three; `IInv`, of
`AuthServerProofs`, adds the other three:

* `Coherent`: what a position says of `_status` (a handler past its first step
  has set `STATUS_CLOSED`), and that a session that has not had a challenge has
  sent nothing and holds no archive.
* `SweepHolds`: only a sweep under way holds references.
* `Keys`: a key in the table was issued; a session about to prove a key, or that
  read one for a reconnect, holds one issued to its account; a session whose key
  is in the table is about to send its proof, or is authenticated and has sent it
  or was closed. The middle part is what makes a stale reconnect key harmless.
* `LockedAddress`: a session past the check of a locked account comes from the
  address in the table. With it, a logon writes the address that was there, so
  the check of every other session stays true.
* `Archive`: an offered archive belongs to a build the policy patches, and no
  handler is under way once the archive went to its thread.
* `Deadlines`: the sweep's time is not ahead of the clock, a session being closed
  had its deadline passed by that time, a session disarmed in time is inactive.

`AuthStepProofs` proves types and `Coherent` action by action, and sorts steps
into those of one handler, deletions, and `Quiet` ones that touch nothing the
keys depend on (`NextCases`), from which `Keys` follows. `AuthServerProofs` and
`AuthCountProofs` start from `Base` and reuse that division of steps.

For `Refinement`, `Base` gets `Told`: what a client was told belongs to the
position of its handler (a handler that may still refuse has sent nothing, or only
the challenge; an open authenticated session was welcomed). `VisibleStep` sorts
every step into silence, one answer in its place or one grant, and these are steps
of `AuthSession`. `Told` is needed because `AuthSession` allows one verdict, and
only the position of a handler says that none was given yet.

`CountersExact` compares two counters with the sizes of two sets. `Busy` says that
a handler's session is alive and held by the transport, so that the destructor
cannot run between the handler's last assignment and its increment; `CountingSteps`
says that every step but an accept, a destruction and the increment leaves counters
and sets alone, and in those three one session joins or leaves a set. Since sessions
begin one at a time, only finitely many are alive, and `Session` may be infinite.

`NoEarlyBan` speaks of queued bans, and a ban is queued when the counter in the
table has reached the limit. So `Tally` says what the counter can be: what the table
holds, plus the increments that are queued, is at most the number of clients that
were told of a wrong password and whose handler has queued its increment. It needs
`Failing`, that a client told so is at the end of its session and its handler in the
steps that count, for otherwise one wrong password could be counted twice. A success
resets the counter, and an increment for a deleted account does nothing; both keep
the inequality, and because of both it is no equality.

### Framing

`AuthStreamProofs` proves, from `PieceAssumption` (a set of streams of frames, of any
length; pieces of any lengths that fit the limit on waiting input behind the longest
challenge):

| Theorem | Statement |
|---|---|
| `StreamTypes` | `Spec => []TypeOK` |
| `CutsNeverMatter` | `Spec => []CutsDoNotMatter` |
| `GuardAlwaysSuffices` | `Spec => []GuardSuffices` |
| `LateFrames` | `Spec => []AtMostOneLate` |

The invariant says three things more than the properties. `Position`: the buffer
holds what was delivered behind the frames handled, and a session that waits holds
less than the guard requires of the next frame. `Running`: the session is where the
reference definition `After` is after as many frames, until the loop ends on a
refused one. `Lateness`: none is late while the session is open or a frame's handler
is still under way. The offsets of frames and `After` are recursive functions on the positions of a stream; what the
proof needs of them (offsets grow, a session that was refused stays refused, the
frames whole in a number of bytes are those whose ends it reaches) is shown by
induction over a set of positions (`IntervalInduction`), which the least element of
its complement gives (`LeastElement`).

### Realm list

`RealmListProofs` proves, for any number of threads, realms, clients and edits
and any interval, from `RealmAssumption`:

| Theorem | Statement |
|---|---|
| `ListNeverGoesBack` | `Spec => NeverBackwards` |
| `ClientsSeeProgress` | `Spec => []SeesProgress` |
| `RefreshIsTimely` | `Spec => []FreshEnough` |
| `FailureIsShort` | `Spec => []OutageIsShort` |

The invariant has three parts. `Gate`: the mutex's holder is the one thread
between `try_lock` and `unlock`. `Order`: what is about to be published is no
older than what is published, and views and answers are no newer. `Fresh`: a
refresh under way has put off the next one from its own time; otherwise the
snapshot is the one `m_nextUpdate` was counted from; a thread that was let in and
has left finds a snapshot new enough for the time it read. The last part is what
a request carries from the gate to its view, past the refreshes of others.

`RealmAnswerProofs` proves, from the same assumption, which says that the table has
finitely many realms:

| Theorem | Statement |
|---|---|
| `ListTypes` | `Spec => []TypeOK` |
| `AnswersAreOneTable` | `Spec => []AnswerIsOneTable` |
| `CountModuloWidth` | `Spec => []AnnouncedModulo` |
| `CountExact` | `Spec => []AnnouncedExactly`, if there are fewer realms than `Uint8` and `Uint16` |
| `ClientsGetBestAddress` | `Address!Spec => Address!BestAddress` |

`Writing` says that the index by generation of every snapshot, built, published or
viewed, agrees with its rows, and that a thread writing an answer has an entry for
each realm shown but those still to do, and announced as many as are shown. The
hypothesis of `CountExact` is real: a 1.x client reads the number of realms from one
byte (`AuthSocket.cpp` 1242). `AnnouncedModulo` is what holds without it: the number
announced is right modulo 2^8, or 2^16 for later clients.

The last theorem is about `RealmAddress`, of which the module has an instance, for
addresses of any width; it needs no assumption. `ResolvedFromRow` says that each
address of the realm is what its host stands for, or 0 if that is a name; hence a
dotted quad is always right, and `NamesResolved` need not speak of it.
`MaskedBits` turns the comparison under a mask into one bit by bit.

### Patch transfers

`PatchTransferProofs` proves, for any archives and sizes, chunk, ceiling and
header, from `PatchAssumption`:

| Theorem | Statement |
|---|---|
| `BacklogIsBounded` | `Spec => []BacklogBounded` |
| `OneFrameIsLate` | `Spec => []AtMostOneLateFrame` |
| `TransferDelivers` | `Spec => DeliversAdvertised` |
| `TransferTypes` | `Spec => []TypeOK` |

`Opened` says that a file is open where one is read. `Flow` says that between
the wait and the send the backlog is below the ceiling, since only this thread
adds to it, and that no frame is late yet. `Advertised` says that what was sent
and what is in the framing buffer are the bytes of the open archive from the
offset on, and that the end of the stream is the size that was advertised. It
holds as long as no file was changed in place; `ChangedOnce` says that this is
for good, and from then on the abstract transfer is void.

### The process

`MainLoopProofs` proves, for any number of workers, starts, queued statements and
scheduled minutes, from `MainAssumption`:

| Theorem | Statement |
|---|---|
| `StatementsSurvive` | `Spec => []NoStatementLost` |
| `RestartsDoNotLoop` | `Spec => []NoRestartLoop` |
| `StatusTellsCause` | `Spec => []ExitCodeIsCause` |
| `ProcessTypes` | `Spec => []TypeOK` |
| `WaitsEnd` | `Spec => []NoCircularWait` |

`Statements` ties the queue to the positions of `main`: statements wait only
while signals are caught, and none is queued once the workers are joined.
`Schedule` says that past the start-up the minute an exit fired in is marked.
`Cause` says what the exit code is as long as the process runs. `Locking` says that
between steps only the main thread has the mutex, and only while `Update` takes its
references, so that it joins the workers with the mutex free. This is the part of `StopIsHonoured` that does not depend on fairness.

### Only model-checked

Liveness, which the prover does not reach: `UnauthenticatedEnds`,
`ClosedIsForgotten`, `RequestEnds`, `EndReleasesThread` and `StopIsHonoured`. Every
other property of a passing run is a theorem.

## What is not modelled

* SRP6 itself: big-number arithmetic and hashing are out of a model checker's
  reach. Whether a proof matches is a choice.
* `ParseClientLocaleClaim` and `PatchPolicy::Parse`: functions on text without
  state, called once per challenge and once per start. A model would repeat their
  scanning letter by letter; their unit tests cover them.
* Text, icons and populations in answers; the contents of archives beyond the
  place of each byte; log output, console title, processor affinity.
* The transport and the database layer. Their contract is taken from how `src/`
  uses them: input of one session is delivered by one thread at a time, `onClose`
  comes between two calls of `onData`, `stop` joins the workers, the delay thread
  ends when it was told to and its queue is empty. Queries other than the realm
  list's are assumed to answer.
* A clock that is set back: the repository does not say what should happen then.
* `AuthStream` and `AuthSocket` stay apart: the first has bytes and takes a
  handler as its outcome, the second has handlers and takes a frame as given.
  `GuardSuffices` is what joins them: a frame that passes the guard is one its
  handler consumes.

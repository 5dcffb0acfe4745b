# ShellSync in TLA+

ShellSync lets a phone or a desktop use terminals that run on another machine. A
**daemon** owns the shells, records their output in SQLite and serves HTTP and
WebSocket; a **relay server** in the cloud connects phones and daemons that cannot
reach each other; the **mobile** and **desktop** apps are its clients. This directory
models the concurrent core of the daemon and of the relay, checks it with TLC and
proves part of it with TLAPS.

1. [Inventory](#1-inventory) — the parts of the system
2. [Modules and the code](#2-modules-and-the-code)
3. [Runs](#3-runs) — what is checked, bounds, fairness
4. [Proofs](#4-proofs)
5. [Where code and comments disagree](#5-where-code-and-comments-disagree)
6. [Not modelled](#6-not-modelled)

## 1. Inventory

| part | state | operations | talks to |
|---|---|---|---|
| Relay hub `server/relay/hub.go`, `session.go`, `endpoint.go` | daemons, codes, claimed, streams, bySess, nextID; per session: closed flag, callbacks | reg, code, claim, open, accept, close, data; session close; Hub.Close | every session's read goroutine calls the hub and writes to other sessions |
| Claim limiter `server/relay/limiter.go` | events, blacklist, per address | allow | called by handleClaim under Hub.mu |
| Relay client `daemon/.../relay/client.go`, `manager.go` | enabled, running, client, state; per client conn, streams | Start, Stop, SetEnabled, ReportCode; Run, runOnce, serve, readLoop, pumpLocal | the hub over a WebSocket, the local HTTP port over TCP |
| Terminal manager `daemon/.../terminal`, `service/terminal.go` | sessions map, terminals table | Create, Stop, Delete, Restart, CloseAll, RecoverOnStartup, finalize | PTYs, log store, SQLite, status subscribers |
| Log store `daemon/.../logstore` | states, pendingResizes, per terminal seq and aggregators; terminal_logs table | Register, Append, SetPendingResize, FlushResizeMarker, Close, aggregator loop | called by sessions and connections, calls back with flushed chunks |
| WebSocket hub and connection `daemon/.../ws` | conns; per connection subs, mirror, send queue, closed; the screen's dirty flag | subscribe, unsubscribe, input, resize, history, mirror, broadcast, close | terminal manager, log store, event bus |
| Tasks and todos `daemon/.../service`, `repository`, `eventbus` | tables, subscribers of the bus | create, update, delete; Publish, Subscribe | HTTP handlers, the WebSocket hub, the clients' stores |
| Pairing service `daemon/.../service/pair.go` | codes, failCount, lockedUntil | Init, Verify | relay manager (ReportCode), devices table |
| Daemon process `cmd/shellsync-daemon/main.go`, `lifecycle/lock.go`, `migrate.go`, `identity.go` | lock file, schema, relay identity | Acquire, SetPort, Release, migrate, seed, LoadOrCreateIdentity | other daemons on the same data directory |
| Auth, configuration, settings, devices, HTTP decoding | small or in SQLite | | |
| Mobile and desktop apps | stores, pending opens, streams, reconnection | | the relay or the daemon |

**What is hard here.** Go mutexes are held only around map accesses; every write to a
connection, SQL statement and wait happens outside them, on values read before. So:

* the hub looks a session up, unlocks, and writes to it while it may be closing; three
  tables (streams and two lists) change at different points in four functions;
* a re-registering daemon closes its predecessor and waits for the predecessor's
  callback, which needs the same mutex;
* the relay client consists of five kinds of goroutine, two of which may outlive the
  `Client` the manager holds; streams are closed by id, and ids can come back after the
  relay restarts;
* a terminal is stopped, deleted and restarted by concurrent requests, while its shell
  exits by itself, with a table and a map that must agree, across crashes of the daemon;
* the log of a terminal is written by up to three goroutines with one atomic counter,
  which is thrown away and reseeded at every close;
* a subscriber switches from history to live output while chunks are being inserted;
* six kinds of goroutine send to a WebSocket connection, whose channel is bounded and is
  closed by one of them; mirrors share one dirty flag;
* a change of a task, the read of the changed row and its publication are three steps,
  so events may be older than the table, and a client mixes them with responses and lists;
* daemons that share a data directory meet in a lock file, and may die between any two of
  its system calls;
* codes and limits work with times read before the mutex was taken.

**What makes each part correct.** Hub: lists and streams agree, caps hold, both ends
hear of the end of a stream, nothing stays on a dead session, a claim uses up one code.
Limiter and pairing: budgets and lockouts hold in spite of stale times, a code pairs one
device. Relay client: one live client, protocol order, no unreachable socket, complete
wind-down, reconnection. Terminals: no row running for ever, no untracked shell, every
request returns, every subscriber hears of the exit. Log and replay: output in order,
nothing vanishes, a subscriber misses nothing. Connections: nothing is left behind by a
connection that ended, clients end up with the current screen and grid, a lost peer is
forgotten. Tasks: only legal transitions, clients converge to the table. Process: one
daemon per directory, the lock file leads to it, the relay identity is never replaced.

`PROJECT.json` lists every part under `components`, and under `hazards` the places in the
code these points come from with the properties that watch them.

## 2. Modules and the code

One step of a model is one critical section of a mutex, one SQL statement, one write to a
connection, one system call on a file, or one wait that ended. `PROJECT.json` maps every
definition to its lines. Operators whose comment starts with "Mutant" are deliberately
wrong variants of the definition that follows; they are used nowhere and serve to show
that a property can fail. History variables are named as such where they are declared:
they record that one of the windows named in a property's comment was met.

**RelayHub** — one read goroutine per session (`pc`, `arg`) and at most one goroutine
that runs its `Close` (`st`, `closeOwes`). handleOpen is `HandleOpen` (the critical
section), `OpenToDaemon`, `OpenToClient` (the two writes) and `Drop`; handleReg is
`HandleReg` and `FinishReg`, between which the old session's callback runs;
onSessionClose is `OnSessionClose` and one `NotifyPeer` per frame. `pipe` keeps dropped
pipes because handlers keep pointers to them. Frames are abstracted to what an end
believes (`live`): frames to one session are written in order. Breaking a connection is
separate from noticing it. Time is a flag `fresh` of a code that may fall at any moment.

**Tunnels** — the abstract specification of the relay's streams: ids handed out in order,
two fixed ends, at most `Cap` tunnels per session, tunnels that go one by one or with
their session. RelayHub implements it (`ImplementsTunnels`) under the mapping
last = `nextID`, open = the ids in `streams`, ends = `pipe`.

**ClaimLimiter** — `allow` for one address, with a clock, and sessions that read it up to
`MaxLag` before they get the mutex. The events are kept by their number among all grants:
allow asks only how many are left. The hub's model leaves the limiter's verdict open.

**PairService** — Init and Verify as a clock read, the critical section, and for Verify
the insert of the device, which may fail. A restart of the daemon clears all but rows.

**RelayClient** — Manager (`SetEnabled` in its two critical sections, `Start`, `Stop`,
`RunReturned`), `Client.Run` (`RunOnce`, `Handshake`, `Online`, `Serve`, `Cleanup`,
`Lost`, `Offline`, `Backoff`), `readLoop` (`ReadStep`), a context watcher per connection
(`Watch`), `pumpLocal` (`PumpEnds`, `PumpWriteFails`), `ReportCode`. A connection is
"dead" when the peer is gone and nothing noticed. Payload bytes are left out, and the
backoff delay is a wait of unknown length.

**TerminalManager** — requests (`req`) run Create, Stop, Delete, Restart or CloseAll;
each session has a goroutine that ends in finalize (`fin`): status under the mutex,
UpdateStatus, callbacks, unregister, done. `overlap` and `unsaved` are history variables:
two requests met in one of the windows of section 5, or a status could not be written.
TerminalService.Restart asks the map twice in a row before stopping; the model asks once,
which gives the same outcomes.

**TermLog** — the log of one terminal. A `termState` object is a generation; `cur` is the
registered one, goroutines may hold older ones. Writers (aggregators of both directions,
and connections that flush a resize marker) allocate a number, insert a row and notify in
three steps. Output is numbered units, and a resize marker carries the number of the last
unit before it; a flush takes any prefix up to `MaxChunk`, which covers the timer and the
size rule. `Close` removes the state, then stops the aggregators one by one. Input goes
through aggregator() in its four steps, and `InputPanics` is what happens when a close
gets in between: the process dies.

**TermReplay** — extends TermLog with handleSubscribe: lookup, callback, resize marker,
pages, release of the buffered chunks, live.

**WsConn** — connections (`rd` is the read loop and what its handler carries), the write
pump, the heartbeat, the mirror loops of handleMirror (`loop`), the broadcasts under
Hub.mu (`hubMu`, `castTo`), and one session's subscriber tables with the goroutines that
call them. Resizing is its five steps: the PTY, the session, the screen, the lock, one
send per connection. close is its four. What is sent is abstracted to screens (a version),
grids and everything else. `HttpGoes` is a resize by HTTP, which tells nobody.

**Board** — tasks and todos: request goroutines with one SQL statement per step, the bus
and the hub's queue as two bounded channels, and a client's store that takes events, the
responses of its own requests and lists. A row is its status and one other field, for a
todo its task (the foreign key that ON DELETE SET NULL clears).

**DaemonBoot** — processes that share a data directory. Files are inodes with the two
names daemon.lock and daemon.lock.tmp: truncating, writing and renaming are separate
steps, so a process may write to a file that was renamed under it. Pids are reused by
daemons and by other processes; processes die anywhere. The database is the number of
items applied (the migrations, then the default user) and the two identity keys.

**MCParts** composes PairService, ClaimLimiter, DaemonBoot and Board, which share no
state, in one run: the initial state picks the part that moves. The other `MC*` modules
give constants their values; `RelayHubProofs`, `PairingProofs`, `RelayClientProofs`,
`BoardProofs`, `DaemonBootProofs`, `WsConnProofs`, `TerminalManagerProofs` and
`TermReplayProofs` hold the theorems.

## 3. Runs

| run | shows |
|---|---|
| `hub_safety` | Lists hold every stream, an end that believes in a dropped stream is owed a close frame, a claim uses up a fresh code of its device, and the hub implements the abstract tunnels, caps included. |
| `hub_live` | A daemon reconnects while its old session still stands: no stream stays on a closed session, handlers return, dead sessions release their streams. |
| `hub_leak` (violation) | A disconnect leaves ids in the peer's list (section 5). |
| `client_all` | One live client, handshake before everything, every open local socket reachable, no accept after a close, cancelled clients wind down, an enabled manager ends up serving. |
| `client_online` (violation) | A replaced client overwrites the state (section 5). |
| `terminal_all` | A running row has a session that will record its exit; the map holds no finished session; outside the named windows no shell is untracked; requests return; status reaches the subscriber. |
| `term_safety` | The log has output and grids in the order they happened, output is accounted for, chunks are lost only to overlapping states; a live subscriber misses only chunks inserted out of order; the live stream is in order but for chunks that overtake the buffered ones. |
| `term_live` | Accepted output gets persisted, handleSubscribe ends. |
| `replay_dup` (violation) | A chunk of the last page is sent twice (section 5). |
| `ws_all` | An ended connection is in no table and its loops are told to stop, subscribers are never listed twice; mirrored clients end up with the current screen, and everyone with the current grid, outside the named windows; a lost peer is forgotten. |
| `ws_panic` (violation) | A broadcast sends to a closed channel (section 5). |
| `parts` | Pairing: one device per code, guessing braked, lockouts kept. Limiter: no window shortened by the lag sees more grants than the budget, a ban lasts. Process: one daemon, a lock file that leads to it, an identity that is kept. Board: legal transitions, clients in sync when everything has been delivered. |

**Bounds.** Every bound is a constant named `Max...`, used only in guards.
*Hub*: one client, one device, one daemon session (two in `hub_live`, so that one
replaces the other), caps 2 and 1 with two stream ids, so that both caps are reached;
in `hub_safety` both ends may break, and both may send frames the protocol forbids
(`Breakable`, `Malformed`); in `hub_live` a session ends by being replaced or closed. The
proofs cover all sizes. *Limiter*: window 4, budget 2, lag 1, time 10: two windows with a
ban between them. *Pairing*: two codes, each issued once (`MaxIssued`), two requests,
limit 2, three attempts: one more than the limit, which is what the brake speaks of.
*Process*: two at a time, three starts (a crash and a successor while another runs), two
pids so that they are reused, one failing call, one item to apply. *Board*: one task and
one todo, two requests at a time, three requests or lists, channels of one event, so that
two events in a row overflow; four requests were explored once (24 million states) with
the same result. *Relay client*: two clients and three connections (one lost, one
replaced, one serving), one stream id, which therefore returns on the next connection,
two operations among toggles, reported codes and shutdowns, and one fault; three
connections and two clients cannot run out with one fault and two toggles. *Terminals*:
one terminal (terminals share nothing but the map, and CloseAll's loop has one round),
three sessions, two concurrent requests, three in all: two restarts and a CloseAll or
Delete; one fault, a crash or a failing statement. One status subscriber is followed,
since subscribers do not affect each other. *Log*: two units of output, one of input, two
grids, two states (three in `term_live`), one crash, pages of one row: a page boundary
falls between any two rows. *Connections*: two connections, two loops, two grids, queues
of two messages, two subscriptions per connection, three operations (messages, chunks,
events, exits, departures): two to make a state and one to disturb it; the invariants were
also searched for with four operations, through 25 million states.

`CHECK_DEADLOCK FALSE` in every configuration: the bounds end behaviours, and the system
may be idle.

**Fairness** is weak, per goroutine: a handler, a closing goroutine, an aggregator (its
timer fires), finalize, a request, Client.Run and its readers and pumps, a connection's
read loop, write pump and heartbeat, and the holder of Hub.mu go on when they can, since
the Go scheduler is fair and every wait on the network or the database has a deadline, a
ping or a context. Nothing is assumed of users, apps, shells, the network, of the relay
and the local server as the client sees them, or of mirror loops; in particular the step
of pumpLocal that needs bytes from the local server is not fair. The relay's own writes
have no deadline (session.go:99): `hub_live` treats a write to a stalled peer as one that
ends. In `ws_all` broadcasts are bounded, so weak fairness covers the wait for Hub.mu; Go's
mutex serves a waiter that starves first.

## 4. Proofs

Checked by TLAPS for every value of the constants that meets the named assumptions.

**RelayHubProofs** (`SessionsAssumption`: roles, `None` and `DevOf` make sense;
`BoundsAssumption`: caps and `MaxID` are natural numbers). `InductiveInvariant` proves
`IInv`, which has these conjuncts:

* `TypeOK`, and `HandlerArgs`: what `arg` is at each point of a handler;
* `IdsKnown`: ids up to `nextID` have a pipe, nothing mentions a larger one, so the id of
  an open is new; `OwnStreamsOnly`: a session's list and beliefs are about its streams;
* `StreamsListed` and `CapsOnLists`: the code checks the caps on the *lists*, so the cap
  on streams follows from a cap on lists and from streams being listed;
* `OpenersInFlight`: a stream on a closed session belongs to an open whose client is at
  a known point. A stream can be added after its daemon's callback ran; the first write
  then fails and drops it. The statement distinguishes the two ends, because after the
  first write succeeded the daemon's callback had not run yet;
* `DebtsHaveDebtors` and `ClosedStreamsAnnounced`: close frames are owed by a goroutine
  that is at the point of writing them.

The proof has one lemma per group of handlers; `FrameStep` and `HandlerFrame` carry the
steps that touch no stream. From it follow `TypeCorrect`, `StreamsAreListed`,
`CapsAreKept`, `DeadSessionsHoldNoStream`, `DropsAreAnnounced`, and, with `CodeOwners`
(entries and registrations carry their session's device), the action property
`ClaimsBindOnce`. `HubImplementsTunnels` is the refinement: `OpenDigs` (an open digs a
tunnel: its id is the next one, and there is room because lists bound streams),
`DropFills`, `CloseFillsAll` (OnSessionClose goes by its own list, which holds all the
session's streams and nobody else's), and stutters for all other steps.

**PairingProofs** (`PairAssumption`: durations are natural numbers, the limit is
positive, requests are finitely many; `LimiterAssumption`: window and budget are positive,
and a ban is at least as long as the window and the lag together, as ten minutes are to
one). Of the pairing service: `PairTypeCorrect`; `CodesAreOneTime` (inductive
with the types: every step keeps the count of devices, inserts under way and the entry
within the number of issues); `GuessingIsBraked`, from `CountInv`: `failCount` is the
length of the current run of failures since the last success or lock, and what lies right
before the run is a success or a lock that is over; `LockoutIsKept`, which also needs that
no request holds a time of the future. Of the claim limiter: `ClaimsStayInBudget` counts all
grants, of which allow forgets some, so it needs to know why those no longer matter. `Kept`
says that a grant the limiter does not hold is older than the window, by the clock or by the
time at which the ban that emptied the window ends; and `Clocks` that a time which arrives
late is at most the lag behind. So a grant in a span of the window less the lag finds all
others of the span in its window (`GrantInBudget`). `BansAreServed` follows from `BansKept`:
the end of the last ban is the end of all of them.

**RelayClientProofs** (`ClientConstants`: clients and connections are positive numbers, so
0 is neither). `OnlyOneLiveClient`: the types of the manager's and the clients' state
(`RunTypes`) together with `OneLiveClient` are inductive. `Start` creates a client only
when none runs, so no live one is left behind; `Stop` and the end of `Run` cancel a client
before the manager lets go of it; no other step gives a context back. The connections have
an invariant of their own, `LinkInv`. The goroutines that write to a connection hold it by
value, and nothing they test says that the handshake took place: `Greeted` and `Published`
carry along that each of them (the manager's report, the pumps, serve) got the connection
after reg, which makes `HandshakeFirst` inductive. `LinkOwned` and `MapOwned` say that a
client's map is about its own current connection, since runOnce starts with an empty map;
from them follows that an entry is never overwritten by another connection's stream, hence
`OpenTcpStaysReachable`. `Reader` says that a stream readLoop is opening has no pump and no
close yet, from which the action property `NoAcceptFollowsClose` follows.

**BoardProofs** (`BoardConstants`: the channels hold at least one event, tasks and todos
are different). `BoardInvariant` proves `BoardInv`: the types; `IdsGiven` and
`InsertsFresh` (an INSERT adds a row that is not there); `UpdatesJudged` (an UPDATE of a
status carries the status that was judged, from which `OnlyAllowedTransitions` follows,
up to `raced`); and `Followed`, which makes `ClientInSync` inductive: for each row that is
not `apart`, either a request is going to publish it (`Pending`) or the last word about
it in the bus's channel, else in the hub's queue, else in the client's store, is the
row of the table (`Told`). `ClientsGetInSync` is the case of empty queues.

**DaemonBootProofs** (`BootAssumption`: finitely many processes, pids are positive).
`BootInvariant` proves `BootInv`: the types; `PidsApart`; `FilesApart` (the two names never
lead to one inode, or a rewrite would truncate the lock); and, unless `overlap`,
`Exclusive` (whoever claims the lock is alone, and once one is inside the others are off,
about to read, or have read its pid), `LockOwned`, `TmpOwned` (the temporary file is still
the one its writer opened) and `IdentityOwned` (who is about to store a key found it
missing, and it still is). `FreeInodeIsFree` counts inodes: there is always one for the
temporary file. From it follow `OnlyOneDaemon`, `LockLeadsToTheDaemon` and
`IdentityIsKept`.

**WsConnProofs** (`WsConstants`: grids and loops are numbers, loops finitely many,
connections are not one of the words for the state of Hub.mu). `ConnInv`: types; `HolderCasts` (who holds Hub.mu for
a resize is in the middle of its handler, so that the panic of a broadcast meets a
connection that has not begun to close); `EntriesKnown`; and `SubsGone` (no entry between
an old subscription and the new one, and none, nor a loop that goes on, from close on).
`ConnectionsLeaveNothing` follows.
`GridsAgree` speaks of the moments between resizes; `GridInv` of those within one:
`OneGrid` (PTY, session and screen take the grid in this order, and the handler carries it)
and `ClientsTold` (what a client ends with once it has received its queue is the session's
grid, or the resize under way is still going to send it). `ResizesReachEverybody` follows.
In the same way `ScreenInv` makes `MirrorShowsTheScreen` inductive: `MirrorsFollow` says
that the current version is with a loop that has not looked yet, with one that is about to
send it, or the last screen in the client's queue; `Versions` that nobody carries one of
the future; and `Slots`, which counts, that a loop about to start finds a slot of its own.
`MirrorsShowTheScreen` follows.

**TerminalManagerProofs** (`ManagerConstants`: sessions are positive numbers, requests and
bounds numbers). None of the three invariants of the run is inductive; `TermInv` adds what a
request holds while its shell has been spawned and not yet registered: `FlightHolds` (the
session is its own, of its terminal, and not running yet) and `FlightAlone` (unless
requests overlapped, nobody else has a session of that terminal in the map or in flight).
`Requested` and `Spawned` say that all of it is about terminals that were created;
`RowBacked` sharpens `RunningRowIsBacked` to requests that have marked the row, as one that
has not may still fail; `MapKnown` is what `register` and `unregister` keep of the map;
`DownIsQuiet` says that a crash takes everything, so that RecoverOnStartup starts from rows
alone. `TermInvariant` proves it, one lemma per step of a request, of finalize and of the
process; `RunningRowsAreBacked`, `MapHoldsUnfinishedSessions` and `ShellsStayTracked` follow.

**TermReplayProofs** (`WritersAssumption`: connections that flush are not aggregators, "none"
is not a grid; `LogBoundsAssumption`: the bounds are numbers, and a flush takes something).
`ReplayUsesTheLog` shows that each step of TermReplay is a step of TermLog or leaves the log
alone, so the invariants are proved of `LogSpec` and hold of the run's `ReplaySpec`:

* `LossNeedsOverlap`. An insert fails when its number is taken. `SeqOnce`: within a
  generation a number is given out once, and rows and jobs are below the counter. `OneGen`
  and `Ahead`: without an overlap only the last generation has writers, and it counts on
  from above every row, because Register seeds it with the largest number in the table
  (`HasTop`: there is one) when nobody writes any more.
* `OutputIsAccountedFor`. Each step moves units from one place to the next (`Held`, the
  units in buffers and jobs, loses what a set gains); a job that is done is in the table
  (`Backed`).
* `LogReadsInOrder`. `JobsShape` and `RowsShape`: a flush is a marker, if there is one, and
  then a chunk, and rows say whose they are; `BufShape`, `Capped` and `Queued`: units are
  numbered upwards and a flush takes them from below, so those in jobs are older than those
  in the buffer; `RowsFirst`: those in the table are older than both, as long as no
  generation was used with another one still being written.

For what subscribers get, the run's `ReplaySpec` has invariants of its own, over `LogInv` (all of
the above; `UnitInv`, that data is made of the units of the bounds; `OutRuns`, that output is
flushed under the session's own generation only, and before the session is over; `SeqsGiven`,
that a number is that of one row):

* A page. `Rank` numbers the rows of a query; `RanksTaken` shows by counting that every rank
  has its row, from which follow that `Ascending` is the sorted sequence of its set and that
  a page holds everything below its largest number (`PageFacts`).
* `SubscribersMissNothing`. `SubOk` says of a subscription: `PagesSent`, that whatever is in
  the table below the next page's start has been sent or was late; `Whole`, that from the last
  page on, every finished flush has been sent, is buffered, or was late. The chunk a writer is
  about to report is the one exception, and the callback finds the subscription either still
  buffering or live.
* `StreamsComeInOrder`. `InOrder` is the property together with what is between buffer and
  live stream; to append to either, one needs that the next chunk comes after all the callback
  has had: `InPast`, where `Past(n)` says that the session's counter has given `n` out and
  that it is not above the chunk its writer has at hand. A counter only grows, but another
  generation starts from the table, so this holds only while the session that the
  subscription belongs to lives; later its callback gets nothing more.

**Only model-checked.** Liveness (all `~>`, `[]<>` and `<>[]` properties), which is outside what
these provers do. Every invariant and every safety action property that a passing run checks
has a theorem.

## 5. Where code and comments disagree

With a run and a finding in `PROJECT.json`:

* **Leaked stream ids** (`hub_leak`). onSessionClose removes the dying session's list and
  streams, not the ids in the peer's list; they count against the peer's cap until it
  disconnects (hub.go:375; server/README.md:36 says both sides are cleaned up).
* **Chunks sent twice** (`replay_dup`): replayHistory returns the number before its last
  page, so a buffered chunk of that page is sent again (conn.go:404; conn.go:173 says
  "nothing is lost or duplicated").
* **Online of a replaced client** (`client_online`): the state callback of a stopped
  client overwrites its successor's state (manager.go:59; manager.go:143).
* **Broadcast to a closing connection** (`ws_panic`): close closes the send channel before
  ServeHTTP unregisters the connection, so a broadcast in between panics (conn.go:544 and
  513; conn.go:510 says trySend drops what does not fit). From broadcastLoop that ends the
  daemon; from a resize it is recovered by the HTTP middleware and leaves Hub.mu locked.
  Callbacks of a session and mirror loops that were copied or running before the close
  may do the same.

Visible in the models as explicit actions or exceptions of a property, or only in reading:

* an open frame may be written to the client after the stream was dropped, hence after
  its close (hub.go:276; `late` in ClosedStreamsAnnounced); an accept for a stream that
  was just closed disconnects the daemon (hub.go:292); handleReg locks again without
  looking again, so of two racing registrations the first to close the old session may
  win (hub.go:150-157); the close of an old session deletes codes the device's new session
  registered (hub.go:369);
* input during a close meets a nil state in aggregator() or the channel `stop` closed, and
  panics (`InputPanics`; aggregator.go:58, store.go:173-176); Close of a log removes the
  state before its aggregators have flushed: a state registered meanwhile is seeded too
  low and inserts collide (store.go:202; `LostOnlyToOverlap` says this is the only way to
  lose a chunk, and `LogInOrder` that it is the only way to reorder output);
* a chunk inserted after one with a larger number may be skipped by the replay
  (`late` in SubscriberMissesNothing); a live chunk may overtake the buffered ones
  (conn.go:218; `ahead` in StreamInOrder);
* two mirrors of one terminal share its dirty flag: a change between their looks reaches
  only one of them, until the next change (screen.go:82; `oldScreen` in
  MirrorShowsTheScreen); a grid set over HTTP is not broadcast (handlers.go:301; `oldGrid`
  in GridsAgree), and two resizes at once may leave PTY and session with different grids
  (`crossed`);
* a client stays behind the table when an event was dropped, never published because the
  request was cancelled or the change came from a foreign key, published after a later
  change, or when a response or a list was overtaken (`apart` in ClientInSync, which says
  that these are the only ways); a status may be overwritten on a stale check (`raced` in
  TransitionsAllowed);
* two daemons that are inside Acquire together may both hold the lock (`overlap` in
  OneDaemon; lock.go:54);
* a pairing code is used up before its device row is written (pair.go:160);
* after a failed local dial readLoop returns, but the WebSocket stays open until the
  context ends, next to the new one (client.go:276 and 357; the package comment speaks of
  "one long-lived WebSocket connection");
* two restarts of one terminal may both pass the check; the first session is then no
  longer in the map, and CloseAll does not stop it; a Delete between the spawn and the
  registration leaves a shell without a row (`overlap` in `ShellsAreTracked`).

## 6. Not modelled

* **Data and text**: frame, JSON, base64 and QR encodings, metrics, logging, the content
  of the terminal emulator, HTTP decoding, listing and filters. No property depends on
  them.
* **Stateless or once**: authentication (a comparison), configuration (read at start),
  device and settings services (one statement, no event), the log archive (only tests call
  it), the relay server's main and probe, deployment files.
* **The keepalive of a relay session** (session.go:152): whether a stalled peer is noticed
  depends on how long a TCP write may block, which the code does not bound.
* **The mobile connection** (relay_transport.dart): its pending opens and reconnection run
  in Dart's event loop; the hub's model lets a client send any frame in any order, so the
  hub's properties do not depend on it. What an app makes of a late accept is not checked.
* **User interfaces and process launch** of the desktop and mobile apps; the desktop's
  task and todo stores are in Board.
* **pty**: the system calls; a shell's start, exit, close and wait are in TerminalManager.

Work that would extend this most: RelayHub and RelayClient composed over queues; the
abstract life of a terminal, with TerminalManager as its implementation.

# zorkbot in TLA+

zorkbot lets players on a MeshCore radio mesh play Zork. This directory models
the parts of it where concurrency, failure, ordering and limits decide whether
it is right, checks them with TLC on small instances, and proves the central
properties with TLAPS for every value of the constants.

## 1. The system

Two processes. The **bot** (`src/zorkbot`, Python, one asyncio event loop)
talks to a radio and, over HTTP, to the **game service** (`src/game`, Go, a
goroutine per request), which runs one interpreter process per player. The bot
also serves an admin console (FastAPI, the same event loop, SQLite in worker
threads).

| Component | State | Operations | What makes it correct |
|---|---|---|---|
| Session registry, `session_state.py` | `_sessions`, `_num_to_player`, `_watching`, each record's `watchers`, `_next_num` | add/remove session, add/remove watcher, lookups | the four structures agree after every sequence of calls; numbers are never reused; the watcher limit |
| Dispatch and workers, `bot.py` | a queue of one command and a worker task per player | `_enqueue`, `_run_worker`, poller, `stop` | an accepted command is answered; `!end` gets past a busy worker |
| Handlers, `commands/` | locals held across awaits | `!start !end !end N !watch !reset`, game text, informational commands | what a handler checked before an await still holds when it is used |
| Watcher fan-out, `bot.py` | a queue of coroutines, a consumer task and a done callback per session | `_fanout`, `_run_fanout`, `_on_fanout_done` | one consumer per session, nothing queued is forgotten, order is kept |
| Send gate, `runner.py` | a lock, a depth counter, two time stamps | `_send_with_spacing`, `_wait_for_quiet_air`, `_note_channel_rx` | one packet on the air, spacing and guard respected, FIFO, nobody stuck |
| Advertiser, cooldown, `!bots`, `advertiser.py`, `cooldown.py`, `commands/bots.py` | two time stamps, sleeping reply tasks | periodic and on-demand adverts, roll-call replies | at most one per window; test and stamp lie on two sides of an await, so it is not kept (section 4) |
| Reception, `runner.py`, `message_window.py` | the radio's own queue, the rings of recent messages | flush at start, subscribe, fetch, send, stop, crash | nothing old is answered; start-up ends; the windows hold the most recent |
| Radio state, `radio_state.py`, `admin/routes/radio.py` | a cache of the radio's slots, its age, a lock, the last write | cached reads, rate-limited writes with read-back | the cache and every answer follow the radio, name and key |
| Packetizer, `packetize.py` | none (pure) | split text into numbered packets | the search for the number of packets ends, no packet is too long, nothing is lost |
| Game client and API, `game_client.py`, `api/server.go` | none | start, end, reset, list, command | every status reaches the handler as the right exception |
| Session pool, `pty/pool.go`, `pty/session.go` | entries, timers, managers with a busy flag and a process, save directories | start, command, end, reset, timers, restart | the slot limit, no leaked process, no entry with a closed manager, saves |
| Event log, `admin/events.py`, `admin/store.py` | a bounded queue, a writer task with a batch, SQLite | record, write in batches, stop, close | whole batches, in order, at most once; no batch fails on a foreign key |
| Console streams, `admin/bus.py`, `admin/logbus.py`, `admin/routes/` | channels, subscriber queues, a ring of log records | publish, subscribe, emit from any thread, replay, unsubscribe | limits counted exactly; every gap announced; every stream learns of the end |
| Authentication, config, addressing, CLI, simulator, front end, text clean-up | see section 6 | | |

**Interactions.** The radio library calls the runner's message handlers; they
record the message and call `dispatch_*`, which queues a command for the
player's worker task. The worker runs the handler, which calls the registry
directly, the game service by HTTP and the radio through the send gate.
Watchers' copies go to the session's fan-out queue, whose consumer uses the same
gate, as do adverts and roll-call replies. The poller compares the registry with
the service's list, because the service ends sessions by itself and never says
so. Handlers and registry report what happens to the event sink, which queues it
for its writer and publishes it on the session bus.

**What is hard.** Every `await` is a point where all other tasks may run:
`!start` checks a player's state and registers the session two awaits later;
`!end` removes it first and tells its watchers two awaits later; a game command
captures a record, asks the service, replies, and only then hands the output to
the fan-out; an advert is stamped only after it has come through the gate; a
console decides on a slot before it takes the lock. The pool drops its lock for
up to a minute between its check of the limit and its insert, timers fire into
that, a save shares one busy flag with ordinary commands, and the bot's client
gives up (60 s) before the service does (90 s). The event writer is cancelled
with a batch in its hand while a thread may still be writing another.

## 2. Modules

| Module | Models | Notes |
|---|---|---|
| `SessionState` | `session_state.py` | A record is its number. `RegSpec` is the registry's **abstract specification**: what it does for callers that keep its contract (no session for a player who has one, no watching for a player with an active state). |
| `FanOut` | the `_fanout*` half of `bot.py`, `watcher_notify.py` | Queue, registered task, done callbacks that have not run yet (of the registered task or of one it replaced). |
| `ZorkBot` | the rest of `bot.py`, `commands/`, `game_client.py`, the service as seen by HTTP | Composes the two above. `pc[p]` names the await the handler of p is suspended at; an action is what a task does from one await to the next. |
| `SendGate` | `runner.py`'s gate | `asyncio.Lock` is external and modelled as the library behaves: a newcomer does not pass waiters, a release wakes the first, a woken waiter takes the lock without testing it, a cancelled one passes the wake-up on. |
| `Broadcasts` | `advertiser.py`, `cooldown.py`, `commands/bots.py` | Composes adverts and roll-call replies with the gate: their packets are senders of `SendGate`. |
| `Reception` | `runner.py`'s start, handlers and stop, `message_window.py` | The radio keeps its queue through stops and crashes of the bot; a message is its peer. |
| `RadioState` | `radio_state.py`, the slot routes of `admin/routes/radio.py` | The real slots, each a name with a key, beside the cache of them, which has a hash in place of the key. |
| `Packetize` | `packetize.py` | The algorithm as a machine, one step per word; a text is the lengths of its words. |
| `GamePool` | `pool.go`, the Manager and Session of `session.go` | Goroutines with a location each; an action is a critical section or one slow call. |
| `EventLog` | what the event log promises | The **abstract specification** of the event sink: each event is offered once and settled at most once, in whole batches, in order until closing. |
| `EventSink` | `admin/events.py`, `admin/store.py`, the shutdown order | Implements `EventLog` (`INSTANCE ... WITH`, property `EventLogSpec`). |
| `SessionBus`, `LogBus` | `admin/bus.py`, `admin/logbus.py` and the two stream routes | |
| `MC*` | instances for TLC | |
| `SessionState_proofs`, `ZorkBot_proofs` (with the fan-out), `SendGate_proofs` (with the broadcasts), `RadioState_proofs`, `EventSink_proofs`, `GamePool_proofs`, `Buses_proofs` (both buses), `Messages_proofs` (reception and packetizer) | theorems | See section 5. |

Definitions carry the names of the code (`add_session`, `active_state`,
`remove_watcher`, `session_started`) or of the moment in a handler (`BeginStart`,
`AdvertSent`, `StartReturns`, `IntroSent`, `LookReturns` are `handle_start`,
await by await). `PROJECT.json` maps each to its lines. An operator commented
`Bug:` is not part of any specification: it is a plausible mistake in the
definition after it, and records that the property it breaks can be broken.

**Abstractions.**

- A player is a model value, a message is an operation and a number. Whether a
  reply is delivered, text is refused or output is empty is a nondeterministic
  choice. Senders without an identity only ever get a reply and are left out.
- The bot's several packets of one reply are one await; the packets to one
  watcher are one send.
- `Finish` followed by `Begin`, and a fan-out send followed by taking the next
  item, are two actions where the code's `queue.get` on a non-empty queue does
  not suspend. The models thus allow more interleavings than the event loop has.
- HTTP statuses are `ok`, `full` (503), `missing` (404), `error`; what httpx
  raises is a fault. With the fault `slow` a given-up start or reset is still
  served later (`ServeLate`).
- `endReason` and `told` are history: why a session ended and who was sent its
  notice. `"lost"` marks an end whose notice a fault destroyed.
- In `GamePool` a game position is a number of moves, with 0 for a fresh game or
  no save; an entry's idle and inactivity timers are one timer; a command that
  takes effect although its answer is lost is `RunOk`; `Pool.Close` is a number
  of ends. A process that died by itself is `"dead"` and, as in the code, not
  noticed before it is used. `disturbed` is history: requests overlapped because
  a client gave one up, or a restart made a save directory anew.
- In `SendGate`, `Broadcasts` and `RadioState` time is discrete and a time stamp
  is its age up to its deadline. `Broadcasts` lets no whole unit of time pass
  while a sleep that is over has not resumed.
- In `EventSink` an event is one SQL statement, named by its number; a FIFO queue
  is then a set. Only statements that a foreign key or an UPDATE relates are told
  apart. The rows' columns are left out. Messages and players may still be recorded
  after `bot.stop` and after the sink's own stop, by handlers and sends under way.
- In `RadioState` a sweep is one step, because only the holder of the lock talks
  to the radio; a write and its read-back are two. Any set of slots may be missed
  by a sweep. The key that the library derives from a `#` name is one key among
  the others. `excused` and `blind` are history.
- In `SessionBus` all items but `session_end` are alike, and whether the client of a
  stream is gone before its generator starts is chosen when it opens (`abandoned`); in `LogBus` a record is
  its sequence number and one of two levels.
- In `Packetize` words are lengths; finding a title and cleaning up terminal text
  come before it and are left out. The lead of the first packet is a length,
  and so is the part of it (the mention) that every packet repeats.

## 3. Runs

| Run | Instance | Checks |
|---|---|---|
| `bot` | two players, one session number, every operation but `!end N`, poller, HTTP and radio faults, requests served after they were given up, shutdown | `TypeOK`; `WorkerServesQueue` (no lost wake-up in the pending-command gate); `OneConsumer`; `NoticeOwed` |
| `bot_live` | a player and an admin, start/end/`!end N`/watch, poller, no faults | `CommandsAnswered`, `StaleReconciled`, `WatchersHear` |
| `game_pool` | two players, one slot, two requests and the timers, two managers, clients that give up | `PoolBound`, `EntryNotClosed`, `ProcessOwned`, `BusyIsTemporary`, `ResetStartsFresh` |
| `parts` | sessions: two players, two numbers, start/end/watch/reset, late answers; streams: two sessions, three streams for two places, queues of 2; logs: four records of two threads, buffer 2, queue 1; slots: two slots, two keys, two consoles, all faults of the link; packets: texts of up to 102 words around 10 and 100 packets | `StartingHasNoSession` (through the awaits of `!start` and `!reset`), `IndexInverse`, `WatchConsistent`, `NoSelfWatch`, `NumbersNotReused`, the refinement `RegSpec`; `StreamCountExact`, `EndStillToCome`; `TailComplete`; `CacheIsTrue`, `AddFindsBlank`, `OkIsRadios`; `PackedWell` |
| `queues` | events: four statements, queue 3, batch 2, a faulty database; reception: one channel and three contacts, radio room 2, flush cap 2, windows of 2 for 2 contacts; gate: four tasks (two that advertise, one roll call, one other), depth 3, spacing 1, guard 2, cooldowns 3, delays 1 to 2, two channel messages | the refinement `EventLogSpec`, `RollbackNeedsFault`, `EventsSettled`; `OldNotAnswered`, `WindowsRecent`, `StartupEnds`; `TypeOK`, `OneOnAir`, `DepthExact`, `NoLostWakeup`, `QuietAirAtStart`, `FirstComeFirstServed`, `EveryPacketLeaves`, `BroadcastGaps` |
| `both_states`, `after_notice`, `end_not_told`, `end_unsaved`, `shutdown_rows`, `adverts`, `rekey` | small | what the repository's text says and the code does not keep (section 4) |

`MCParts` and `MCQueues` each check several modules that share no state. A
behaviour follows one of them, chosen at its start (`focus`), while the others
stay as they are: every behaviour of each is explored, and their sizes add up
instead of multiplying. Fairness is owed by the part that is followed.

**Bounds.** `MaxNum` bounds the sessions of a behaviour, `MaxBacklog` the
fan-out a player can pile up, `MaxRx` the channel messages, `MaxMgr` and
`MaxMoves` the managers and the moves, `MaxEvents` and `MaxRecords` what is
recorded and logged, `RadioRoom` and `MaxRecorded` the messages, `Texts` and
`Leads` what is packed. Each is a guard on what the environment sends, never on
what the system does. Two players suffice for each role a property needs at once
(player and watcher, player and admin; an admin's `!end N` is in `bot_live` and
`after_notice`, and what `bot` checks is proved for it too); two numbers let a session follow another
of the same player; one slot and two requests make every race of `GamePool`
possible, with the timers as further goroutines, and what two managers leave open
is proved for any number; four senders for three places give a holder, two
waiters and one that is refused; a queue of 3 and batches of 2 let an overflow
and a batch boundary fall between the two statements of one call; three contacts
for two windows make evictions and returns happen; the texts cross both lengths
at which the prefix grows, in both directions. The `bot` run
may stop (after a shutdown), so it does not check for deadlock. The others do; in
`parts` and `queues` the step `Over` lets those parts rest that may come to their
end with a bound used up, and not the sessions, the slots and the gate.

**Fairness.** `bot_live` assumes that a handler that can go on does, that the
service answers, that fan-out consumers run and that the poller polls: asyncio
runs ready tasks in FIFO order, the gate releases every packet (which
`queues` shows), radio and HTTP calls are bounded by time-outs, and the poll
loop never ends. Nothing is assumed of players, of the service's timers, of
faults or of shutdown. `queues` assumes of the gate that time passes, that ready tasks
run and that a transmission ends (the radio library's calls time out); of the
event log that the writer task runs when it is ready and that SQLite answers or
gives up (its busy timeout); of the start that a `get_msg` is answered or times
out.

## 4. Where the code and its text disagree

- `PlayingXorWatching`: `!reset` does not look at the player's state, so a
  watcher becomes a player and stays a watcher; the class comment and the
  README say the two exclude each other.
- `NothingAfterNotice`: an admin's `!end N` while the player's reply is still
  being sent queues the notice before that reply's copy; `handle_end` says that
  no watcher is told of the end and then sent more.
- `EveryEndNotifies`: when the bot learns of a server-side end from a 404 rather
  than from the poller, the watchers are dropped without a word;
  `docs/specs/dm-sessions.md` promises them a DM.
- `EndedIsSaved`: an end that arrives while a command uses the manager gets
  `ErrBusy` for its save, logs it, and closes the running game.
- `ShutdownClosesRows`: `ZorkBot.stop` queues the statement that ends each
  session "so they don't read as still-active forever"; the sink's `stop` cancels
  the writer while it is collecting a batch and loses what it had taken.
- `AdvertOncePerCooldown`: `advertiser.py` sends "never more than once per
  advert_cooldown_seconds"; the test comes before the await of the gate and the
  stamp after it, so a `!start` and the timer, or two `!start`s, advertise one
  after the other.
- `RejectionReadsAsFailure`: `docs/specs/admin-radio-edit.md` says that "a device
  rejection reads as failure"; the read-back compares the name and not the key, so
  a re-key (`replace` with the same name) that the radio refuses is answered 200.
  The answer carries the hash of the key the radio still has, which nothing
  compares.

Four more are stated by what properties that hold except.

- `BroadcastGaps`: the configuration's comment calls `bots_cooldown_seconds` the
  "min gap between !bots roll-call replies". It is the gap between claims; each
  reply then waits 5 to 10 s of its own, and what is left between replies is the
  cooldown less that jitter, 7 s of 12.
- `AddFindsBlank`: "`replace` Required `true` to write a slot that already holds a
  channel" does not hold for a slot that the sweep could not read (it looks
  unconfigured), for a cache reported stale, nor, with two consoles, for a channel
  that another request writes between the look and the lock.
- `StreamCountExact` counts streams, and not clients: a place is taken when the
  request is handled and given back by the `finally` of a generator that has not
  begun. A client that is gone before it begins leaves its place taken
  (`abandoned`).
- `ResetStartsFresh` excepts a restart that brings a wiped save directory back.

`EventsSettled` speaks of what is queued before the sink's stop. Handlers and
sends still under way may record later (`runner.py` waits for neither); that
stays in the queue of a sink without a writer.

## 5. Proofs

- **Registry** (`SessionState_proofs`). `RegInv` is the type, `IndexInverse`,
  `WatchConsistent`, `WatchersBounded`, `NoSelfWatch` and `NumbersFresh`. None is
  inductive alone: that a new number disturbs nothing needs `NumbersFresh`, that
  a removal clears the right watchers needs the other two.
- **Bot implements registry** (`ZorkBot_proofs`). `BotInv` adds
  `StartingHasNoSession` to `RegInv`: it says of the handlers' program counters
  what the contract of `add_session` demands, and it is what makes
  `BotImplementsRegistry` (`Spec => RegSpec`) hold step by step, for faults, late
  answers, poller and shutdown too. The registry's properties of the running bot
  follow from it. The contract is the one the code keeps: it asks of
  `add_session` only that the player has no session, not that they watch nobody.
- **Fan-out** (`ZorkBot_proofs`, `BotOneConsumer`). `OneConsumer` becomes
  inductive with `CallbackPending`: the registered task's callback is pending
  exactly from its return to its callback.
- **Workers, types and notices** (`ZorkBot_proofs`). `WorkerServesQueue` is
  inductive with the types of queue and program counter: dispatch finds an empty
  queue, a handler's start empties it, its end goes on if something waits.
  `TypeOK` needs, beside the parts above, that a start or reset is about a
  player, because the service may serve it when its handler is gone.
  `BotNoticeOwed` rests on `OwedGone`, that a session with owed watchers has left
  the registry (so that nobody can join them), and on `OneConsumer`: `_fanout`
  would overwrite a notice being sent if a running consumer could be
  unregistered. Each action then shows that told, on its way, queued and being
  sent only pass a notice on to each other.
- **Send gate** (`SendGate_proofs`). `GateInv`: the lock is held iff somebody is
  past it, only a free lock has woken anyone and only the first in line, the
  waiters are linearly ordered, and the stamps agree with the air. From it:
  one on the air, quiet air at every start, FIFO; with `DepthExact` a separate
  induction over the set of packets inside. `NoLostWakeup` rests on `HasFirst`,
  that every set of waiters has a first one: said of all sets it is inductive and
  needs no counting.
- **Broadcasts** (`SendGate_proofs`). `BroadcastsUseGate` shows that adverts and
  replies only use the gate as it allows, so the gate's theorems hold beneath
  them. `CloseAdvertsOverlap` proves `BroadcastGaps`, which is what is left of the
  two cooldowns across their awaits, from two small invariants: within the
  cooldown of an advert on the air, whoever is past the test was so when it was
  sent (the stamp is no older than the advert); and a sleeping reply's remaining
  delay, the age of the last claim and the age of the last reply add up.
- **Radio state** (`RadioState_proofs`). `RadioInv` ties the cache to the radio
  outside a write, and to a request's decision until another write or a blind
  sweep excuses it. `AddLanded` carries that decision over the write: the slot of
  an add that found it blank is blank still or holds the name and the key asked
  for, so that comparing names is enough for an add, and `RadioOkIsRadios` says of
  a replacement only what the name shows. `ServedUntouched` is proved beside what the run checks.
- **Event sink** (`EventSink_proofs`). `SinkInv` says where each statement is
  (queue, batch, orphan, flush, rows are disjoint and, until the stop, in order),
  and that a sessions statement is preceded by its players statement wherever the
  two may be; `SinkImplementsLog` is the step-by-step refinement of `EventLog`.
- **Game pool** (`GamePool_proofs`). `PoolInv` says for each location of a
  goroutine which manager it works on and that a manager not in an entry belongs
  to exactly the goroutines still inside it; slot limit, ownership, busy flag and
  closed managers follow. `ResetInv` adds that, while nothing has disturbed the
  save directory, only the reset itself can touch it between wipe and insert.
- **Console streams** (`Buses_proofs`). `BusInv` adds to `EndStillToCome` that an
  open stream subscribes to what it watches until that session ends, and that a
  number ends once; `StreamCountExact` is a count over the open streams on top of
  it. For `TailComplete`, `LogInv` says of every tail that there is a record up to
  which it was told everything, at its subscription by the replay and since then
  by `_dispatch`, and that what it is still owed is, in order and without a gap,
  what is scheduled on the loop and what the thread inside `emit` has in its
  hand. A record numbered under the lock but not yet handed over is the case that
  makes the plain property fail to be inductive: the new tail is then outside the
  snapshot and has the record in its replay.
- **Reception** (`Messages_proofs`). `OldNotAnswered` is inductive with the queue's
  type. For `WindowsRecent`, `IsRing` counts the places at or after each entry of a
  ring, and `IsLru` says that behind a contact stand exactly the ones heard since
  it was, and that who was heard and has no window was followed by as many others
  as there are windows. Admitting, evicting and moving to the end are one step on
  it (`LruStep`); that the members are the most recently active ones, and that a
  returning contact starts a fresh window exactly when the property says so,
  follow by counting (`LruMembers`, `AgainKept`).
- **Packetizer** (`Messages_proofs`). `IsPacking` describes greedy packing: the
  packets follow each other, each fits or is one word, and none could have taken
  the word after it. `MoreRoomFewerPackets` shows by induction over the packets
  that a larger limit never makes more of them; the limit has three values, by the
  digits of the count, and `NoThirdRound` concludes that the count no longer
  changes after two rounds.

Assumptions: the named `ASSUME`s of the modules. They give the constants their
kinds (finite sets, naturals, `NoPlayer` no player, at least one slot and one
contact, word lengths that are not zero); one is a bound, that a text has fewer
than a thousand words, because the model writes a count with at most three
digits. The code packs command replies and lists far below it. TLC evaluates the
assumptions.

Induction over numbers is done for sets: `SetInduction` and `SmallestNat` follow
from the library's well-foundedness of `<` and replace the induction theorems that
take an operator as parameter. Recursive functions (`Backlog`, the sums of word
lengths) are shown to exist the same way.

Every safety property of the runs is proved. Only model-checked is liveness and
everything under fairness (`CommandsAnswered`, `StaleReconciled`, `WatchersHear`,
`EveryPacketLeaves`, `EventsSettled`, `StartupEnds`): the prover reaches neither
fairness nor `ENABLED`. So are the violations of section 4, which are
counterexamples and not theorems.

## 6. Not modelled

- **Authentication** (`admin/auth.py`, `deps.py`, `routes/auth.py`): access
  control of the console; the models start from requests that were admitted.
- **Configuration, addressing, channels, sanitizing, title detection, terminal
  clean-up** (`config.py`, `addressing.py`, `channels.py`, `sanitize.py`, parts of
  `packetize.py`, `pty/text.go`): functions of strings without state.
- **Read-only routes, statistics, retention** (`routes/meta.py`, `players.py`,
  `stats.py`, pruning in `store.py`): queries, and a periodic `DELETE` that
  concerns nothing modelled here.
- **`apply_settings`** in `runner.py`: a sequence of device settings at start.
- **Command line, simulator, front end, process start-up** (`cli.py`,
  `simulator.py`, `static/app.js`, `cmd/zorkd/main.go`).

What would extend the project: a composition of `ZorkBot` with `EventSink`, so
that the order of the recorded statements is the registry's rather than any the
sink accepts; and a property for the game process that a restart leaves behind
after a close.

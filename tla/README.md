# MoonTerminal: models, checks and proofs

MoonTerminal is a desktop terminal for MoonBot trading cores. One process holds one *feed* thread
per core; each feed owns the MoonProto link to its core, publishes what the core reports to the
session and the windows, writes the core's trade reports to SQLite, and hands the core the
trader's commands. This directory models the parts of it in which the order of events decides what
is traded or what is kept, checks them with TLC on small instances and proves their safety
properties with TLAPS.

## Inventory

Paths are relative to `src/crates/`.

| Component | State | Operations | Neighbours | Hard because |
|---|---|---|---|---|
| Settings serializer `moon-core/src/feed/live/client_settings.rs` | queue of mutations and manual orders, awaited confirmation, retry counter | enqueue edit / blacklist / temporary ban / exit / order, drive, observe echo, drop on disconnect | feed loop, live-action gate, MoonProto's retained snapshot, the core | each packet is a whole snapshot; echoes are compared, not correlated; losses, deadlines, reconnects, a core that contests values |
| Live-action gate `feed/live/stale.rs` | none (reads `ready_since`) | verdict on each command taken from the channel | command channel, feed loop | the channel outlives a disconnect |
| Shared-config serializer `feed/live/shared_config.rs` | queue of page edits and favourites, pending packet, one automation request | enqueue, drive, observe echo / timeout, submit and cancel automation | settings serializer (gate), store row of the settings window | two channels write overlapping fields; verdict events drive the UI |
| Command drain `feed/live/commands.rs` | command channel, `orders_mutated` | one arm per `CoreCmd` | both serializers, trade, strategies, services | batch budget, market role snapshot around the batch |
| Feed loop and lifecycle `feed/live/mod.rs`, `feed/mod.rs`, `feed/retry.rs` | `is_ready`, `ready_since`, `init_completed`, latches per published fact | drain lifecycle, drain commands, drain events, publish; backoff and respawn | everything above | a restart, a reconnect and a new run are three different endings |
| Report replication `db/rep.rs`, `feed/live/report_sync.rs`, `feed/live/alive_map.rs` | replicated rows, epoch, cursor, frontier, alive map | page, live upsert, delete, resync, alive-map scan, reset | core's report stream, report writer | pages, live rows and deletions interleave; a crash between commit and acknowledgement |
| Report writer `db/report_writer.rs` | batch of at most 512 messages per transaction | collect, commit, publish, acknowledge | feed threads, SQLite | one failed message in a batch, crash recovery |
| Report recovery and integrity `db/report_recovery.rs`, `db/integrity`, `db/wal.rs` | database file, backup copies | quarantine, restore, checkpoint | file system | partial failure |
| Session store `session/store.rs` | one row per core and fact | apply each `FeedMsg` | feed threads, UI | rows outlive the process they describe |
| Core lifecycle `session/lifecycle.rs`, `session/identity_respawn.rs` | set of running feeds, venue of each core, debounced respawn requests | add, remove, respawn, drain | feeds, coordinator | respawn against a feed still stopping; a request inside the gap |
| Market coordinator `session/coordinator.rs`, `market/source/refresh.rs` | provider per exchange, served and lingering markets, last role sent | elect, serve, linger, expire, send roles | charts, feeds, market store | election, linger and respawn touch the same maps at different times |
| Run dispatch `session/run_dispatch.rs` | none | refuse run switches and Cancel all on a core that is not connected | gate | check and use are apart |
| Order lines `session/order_lines.rs` | live and archived order lines, retirement | upsert, retire, restore | store, chart | late updates of a retired order |
| Market role `feed/live/market_role.rs`, `feed/mod.rs` | latest, desired and applied role | publish, adopt, apply | coordinator, MoonProto | last-writer-wins snapshot beside a queue; refused calls; a new client |
| Publish gates `feed/live/publish_gate.rs`, `dirty.rs` | last published value | decide whether to publish | feed loop | a value suppressed once too often |
| Strategy edits `feed/strategies*`, `feed/live/strategy_publish.rs` | pending local edits, placement guard | edit, echo, restore | core | an echo older than the edit |
| Account reconciliation `feed/live/account_reconciliation.rs` | poll deadlines | poll, cooldown | engine API | timeouts |
| Configuration files `config/persistence`, `config/storage.rs`, `config/backup.rs`, `backup_store.rs` | config pair and marker, backups, window state | atomic replace, pair save, migrate, restore | file system | a crash between two renames |
| Persistence coordinator `moon-ui-gpui/src/persistence` | dispatched revision per class, deliberate saves, quit | dispatch, acknowledge, flush | one worker thread, the UI | a snapshot taken before an edit acknowledged after it |
| Settings window `moon-ui-gpui/src/settings` | a draft of the configuration with its own uid counter | open, edit, save | wizard, backend | several writers of one draft |
| UID counter `config/uid_counter.rs` | highest uid | allocate, raise, seed from the stores | configuration, report and order stores | reuse after a restore, a crash or a second copy |
| Core move `core_move/` | archive of one core's data | snapshot, pack, import | SQLite, configuration | partial import |
| Telegram bot `telegram/`, `moon-tg` | tunnel, sessions, notification queue | authorise, send, retry | Telegram API | retries and rate limits |
| Updater `update.rs`, `session/core_update` | download, verification, version state | download, verify, swap | file system, network | interrupted swap |
| Market data `market/`, `data/`, `feed/synth.rs` | order books, trades, candles | merge, aggregate | feeds, charts | volume; mostly pure algorithms |
| Analytics and tuner `db/analytics`, `db/tuner`, `db/metrics`, `db/valuation` | caches | query | SQLite | read only |
| Station `moon-station`, `moon-remote`, `feed/station.rs` | remote cores, handover | attach, hand over | feeds | two owners of one core |
| Charts `moon-chart`, UI `moon-ui-gpui` | geometry, windows | render, input | store | rendering; out of scope |

## What makes each part correct

* Settings serializer: an order is placed only after every mutation queued before it was settled,
  never out of order, never on another connection, never kept waiting forever; a confirmation
  stands for an answer of the core; the retry budget is charged to the mutation it was spent on.
* Shared-config serializer: a window never waits for a verdict that cannot come, an edit is not
  reported as kept or refused when it was not, no packet reverts a compact write in flight, an
  automation request is answered once and its packet is never repeated.
* Report replication: no download starts above a row that is missing, what the database shows is the
  core's visible rows once everything settled, and a crash repeats work and loses none.
* Configuration: after a crash the files together hold one saved state; an edit reaches the disk; a
  uid is never given to a second core while the stores keep rows under it.
* Market routing: the cores of an exchange share one provider, its client is subscribed to what the
  charts need and nothing else, and a role the coordinator believes delivered was delivered.

## Modules

| Module | Models | Abstract data |
|---|---|---|
| `ClientSettingsSequence` | `client_settings.rs` whole, `stale.rs`, the settings and order arms of `drain_commands`, readiness and the three endings of a connection (`mod.rs`, `feed/mod.rs`) | a settings snapshot is a function from fields to values, a mutation a partial one |
| `OrderBarrier` | what that serializer promises: one line, first in first out, orders only from the front | no packets, echoes, budget |
| `SharedConfigSequence` | `shared_config.rs`, `shared_config/automation.rs`, `satisfaction.rs`, the order of one iteration of the feed loop, the compact channel as far as the gate and the overlay see it | a page is a function from fields to values; favourites are fields too |
| `SettingsPage` | the store's row, page and revision (`session/store.rs`, `freshness.rs`) and the expert window's send, apply and settle (`core_expert/commit.rs`, `sync.rs`), over `SharedConfigSequence` | one core selected, one area shown |
| `MCClientSettings`, `MCSharedConfig`, `MCSettingsPage` | the small instances | |
| `ClientSettingsSequence_proofs`, `ClientSettingsOrders_proofs`, `SharedConfigSequence_proofs` | theorems and proofs about the two serializers; the second has the refinement of `OrderBarrier` and the wait of an order | |
| `ReportReplica` | `db/rep.rs`, `db/report_writer.rs`, `feed/live/report_sync.rs`, `feed/live/alive_map.rs`, the user's delete: one core's replica | a row is an id, the core database its content came from, and its visibility |
| `ConfigPersistence` | `config/storage.rs` and the pair of files, `config/uid_counter.rs`, the persistence coordinator and its worker, the Settings draft, the connect wizard | a row of `servers.enc` is its uid, the settings are a revision |
| `MarketRouting` | `session/coordinator.rs`, `feed/live/market_role.rs`, the role's mutex in `feed/mod.rs`, `session/identity_respawn.rs`, respawn, add and remove in `session/lifecycle.rs`, the views of `market/source/refresh.rs` | a view either exists or not; a subscription is a market |
| `MCReportReplica`, `MCConfigPersistence`, `MCMarketRouting` | the small instances, as scenarios | |
| `ReportReplica_proofs`, `ReportHistory_proofs`, `ConfigPersistence_proofs`, `MarketRouting_proofs` | theorems and proofs about the three; `ReportHistory_proofs` is the proof of `NoHole`; of the configuration first the uids, then the files | |
| `SequenceFacts` | lemmas on sequences both use: the last position of a nonempty set, suffixes, concatenation | |

`PROJECT.json` maps every definition to its source lines.

### ClientSettingsSequence

`queue`, `waiting`, `pending`, `attempts` are the fields of `ClientSettingsSequence` in the code;
`overdue` says that `waiting_since` is `ECHO_TIMEOUT` ago, so time is reduced to "the deadline has
passed". `drive()` is split where its result is visible: how it starts (`DriveNoSnapshot`,
`DriveBlocked`, `DriveExpired`, `DriveConfirmed`, `DriveUnconfirmed`) and the loop of
`next_action()` (`RetireSatisfied`, `Abandon`, `Send`, `SendFails`, `PlaceOrder`, `DriveDone`).
The loop runs against `view`, the clone taken at its start, while the link and the UI move on; so a
snapshot that arrives in the middle of it is an interleaving of the model. A reconnect inside the
run (`LoseConnection`), another process at the same address (`ServerRestart`) and a new run of
`feed::spawn` (`NewRun`) each clear what the code clears.

The link holds one packet (`slot`): the transport retries until it delivers, and a later packet of
the same kind replaces an undelivered one. `Lossy` adds the loss. The core takes a packet, keeps its
own value of any field in `CoreOwned`, and publishes its snapshot some time later.

### SharedConfigSequence

The feed loop is one thread, and here the order of its iteration matters, because what the
iteration collects (`batch`) is published at its end: `pc` walks through "drain", "lifecycle",
"events" ("echo" when an event was read) and "publish". `drive()` is called from the first and from
the events. Its loop works on a clone of the page and nothing of it is visible before it returns, so
the environment is frozen while `settling` holds; this loses no behaviour and most of the
interleavings. `MAX_COMMANDS_PER_DRAIN` is not a number here: the drain may stop and drive with
commands still in the channel, after any of them.

An automation import is `auto`; the conditions for which it is refused with a reason are one action
(`PatchRefused`) that is always possible, because a refusal changes nothing but the answer.
`CompactWrites`, `CompactEchoed` and `CompactGivesUp` stand for the other serializer: all this module
sees of it is `is_idle()` and the fields it overlays.

### SettingsPage

The session takes one message of the feed's channel at a time (`Show...`). `stale`, `up` and
`stored` decide `Live`; `drained` is `core_config_drained_rev`. The window's `sent` is its
`PendingSend`, `Settles` the condition of `settle_pending`. The window need not look between two
messages: `drain()` empties the whole channel, and the notification of the windows goes through a
coalescing gate (`startup/boot.rs:623-675`, `784-786`, `924`), so the store may move on past a state
on which the window would have settled.

### ReportReplica

`core` is the report database of the core, `client` the MoonProto client of the feed's current run,
`chan` the writer's channel, `tx` and `post` the two halves of a batch: what the open transaction
has applied to a candidate, and what is still to be published, acknowledged and declared again after
its commit. An acknowledgement that completes the download only tells the feed (`pending.at = "unread"`);
that the feed reads `SyncComplete` and asks for the alive map is an action of its own (`AskAliveMap`), so the
writer may declare another download in between (`Redeclare`), whose first page the core may answer before the
map or after it. `db` changes only in the commit, so a crash between the two halves is a state of the
model. `starts` is what the next run of the feed will be told to download from; `StartupStart` is
computed from the database when it is opened. `deleting` is the user's delete, split where the code
lets go of the report handle. Rows are `1 .. MaxId`; a row of an older core database keeps the
database's number in `db.of`, which is what tells stale content from present content.

`given` holds the two counters and four ghosts that mark the interleavings the properties except: `blind`,
`overtaken`, `unmasked` and `late` (see the known limits).

Each event that nothing else bounds (a new run, a link loss, a crash, a failed batch, a recreated core
database, a delete) is drawn from `left`, the budget of the scenario.

### ConfigPersistence

The authorities are the live configuration, the draft and the wizard's copy, each with its own
`next_uid`. A save is a sequence of file operations, one step each (`begin`, marker, `servers.enc`,
`settings.toml`, end), so that a crash or a failure falls between any two. `Load` reads whatever the
crash left, repairs the pair and raises the counter above every uid seen in the files and the stores;
a file may also be unreadable, in which case the code seals it and does not overwrite it. The worker
writes snapshots in order, the coordinator dispatches when the revision moved and acknowledges what
came back.

### MarketRouting

The session is one thread and each feed another. `SetOpen` is the whole of `set_open`: election,
linger, expiry, the views and the roles. What it sends is `outbox`, one role at a time, because each
send waits for that feed's mutex; the session does nothing else until it is empty. `candles` and
`orderbooks` are the two calls of `reconcile_linger`: what is served, what awaits its deadline, and
whose deadline has passed. `latest`, `plan` and `applied` are the mutex's contents, `desired` and
`applied` of `MarketRoleState`; `Adopt` takes the mutex and `Apply` makes the calls and releases it,
any of which may be refused. `client` is what the MoonProto client was really asked for and the
exchange it read at its init; a core that moves is noticed later (`NoticeMove`), and the respawn that
follows replaces feed, mutex and channel.

## Runs

| Run | Question | Bounds | Result |
|---|---|---|---|
| `barrier` | Does the serializer implement `OrderBarrier`, and do its counters and the awaited packet stay with the mutations they belong to? | 2 clicks, each a bare or unbare order; 1 connection, ended in every way; the core contests the manual switch | holds |
| `wish` | Is the last wish held once all settled, whatever old echo came between? | 3 commands of {tp 1, tp 2, a ban}; lossy link | holds |
| `live` | Does every order leave, and only on its own connection? | 1 click, 2 connections, 1 rewrite by the core | holds |
| `exit` | Does an order go out under its own TP/SL? | 1 click, 1 rewrite | **violated**, see findings |
| `shared` | Does the awaited packet cover the head of the queue, is the budget spent in order, is the last wish held, has an import one writer, one outcome and a confirmation of its own? | 2 commands of {a setting to one of two values, a market, an import}, in any order, 1 episode of any kind, 1 compact write or rewrite, refused sends, lossy link | holds |
| `page_live` | Does every pending row wait for something, does the queue empty, and does the window let go? | 1 Apply, 1 outage or restart, lossy link, refused sends, contested setting, any message unnoticed | holds, but for the restart the window does not notice |
| `revert` | Does a later Apply put an earlier one back? | 3 Applies, two settings of one area; no loss, no outage | **violated**, see findings |
| `report` | Does the replica have no hole, no stale row, and does it settle? | 2 rows; 6 scenarios: a replaced core database with two of {outage, new run, restart, delete}, a stopping writer, a delete in an upgraded terminal | holds, but for what the ghosts mark |
| `report_race` | Does a deleted replica start from the beginning? | 1 delete, 2 runs, 1 link loss | **violated**, see findings |
| `config` | Do files, memory and uids stay together, and does an edit reach the disk? | 5 scenarios: saves, wizard, files, reads, unreadable stores | holds |
| `uid_reuse` | Is a uid ever given to a second core? | the wizard beside an open draft | **violated**, see findings |
| `market` | Do the clients follow the charts, through one provider per exchange? | 2 cores, 2 exchanges, 1 market; a cold start and 6 warm scenarios: modes, failover, failed run and refusals, moves, a move beside an edit, edits | holds |

Why the bounds are enough. The retry budget is 2 instead of 3 (`MAX_ATTEMPTS`,
`MAX_EXIT_ATTEMPTS`): 2 already separates "first packet", "last packet" and "spent", and the proofs
hold for every budget. Two commands are needed for an edit to join a packet already awaited; three
distinct wishes (`wish`) for a confirmation of a packet that is neither the first nor the last. Two values per field tell "asked", "not asked" and "asked back"; three
are used where two wishes compete for a field (`wish`, `shared`), so that a packet of the earlier one may be
mistaken for, or land after, the later one. In `shared` others than the user write a value of their own
(`Foreign`), and the two values the user may want are symmetric: nothing but the order of the wishes tells them
apart (`MCSymmetry`; the run checks invariants only). The window is
checked with one Apply over outages, restarts and refusals; two and three Applies meet only in
`revert`.

`report` has two rows (and `ReportHistory_proofs` shows `NoHole` for any number), so that one may be missing below another that was received; its counters (runs,
databases) are bounded by the scenario, not by the model. `config` allows at most one new row per
save and a bounded uid; each scenario has at most one crash or failure of each kind, but several
saves, so that one may be torn and the next one repaired. `market` has two cores, the least that can
hand a provider's role over, two exchanges, the least between which a core can move, and one
market: the maps are keyed by core and market, and markets meet only in that key. Two changes of
a kind (moves, losses, modes, charts) let one arrive while the previous one is still under way. All
scenarios but the cold one start in `WarmInit`, a state that a start without charts reaches: both
cores ready, the first elected, both roles applied. They are apart because their product is out of
reach; together they have 291 394 states.

Deadlock is checked in every run but those of `ReportReplica` and `ConfigPersistence`, where it is
off in the cfg: a terminal that was closed, or whose scenario is spent, really stops. Everywhere else
the loop always turns.

### Properties that hold

* `BarrierSpec`: orders leave in the order of their clicks, behind everything queued before them.
* `PendingCoversPrefix`, `PendingCoversQueue`: `next_action` pops as many entries as the awaited
  packet carried, on the strength of one comparison. Whatever happened between send and echo, these
  are still the entries at the head.
* `BudgetIsHeads`, `BudgetInOrder`: an edit is given up after packets of its own, and never before one queued earlier.
* `BoundedWait`: an order waits for at most `MaxAttempts` packets per mutation ahead of it.
* `NoOvertaking`, `NoStaleOrder`: no packet carries a mutation from behind a waiting order; no order
  is placed on another connection than the one it was clicked on.
* `ConfirmedByNewEcho`: the confirmation of an import stands for an answer to its packet.
* `LastWishHeld` (both serializers): when everything is quiet, the core holds the last value asked
  for of each field that is the user's alone, unless it was given up or forgotten. Two wishes
  for one field compete in both runs. `wish` asks for each mutation once, and no edit of `shared` returns to the
  value the field had first, because the code compares and does not
  correlate: if the user toggles a field back to a value the link still carries, a snapshot that
  equals the expectation by coincidence confirms a packet that was lost.
* `OneWriter`, `AnsweredOnce`: an import excludes every other full packet and has one outcome.
* `RowHasWork`: the trader's pending row has an edit queued or a verdict on its way.
* `EveryOrderLeaves`, `QueueEmpties`, `WindowFollows`: nothing waits for ever. `WindowFollows` excepts
  one state (`Unnoticed`), described among the known limits.
* `NoHole`, `NoStaleContent`: the next download starts at or below the first row that is missing, and
  no row of a departed core database outlives the reset. `AwaitedFromZero`: while the writer waits for
  the download that replaces a deleted replica, nothing that would let a later one skip is durable.
  `NoHole` and `Reconciled` except the three interleavings among the known limits, which ghosts mark
  (`given.overtaken`, `given.unmasked`, `given.late`), and `Converges` the last of them.
  `Reconciled` and `Converges`: once settled the report shows the core's visible rows, and it always
  settles again.
* `NoInheritedHistory`: no core carries a uid under which the stores keep another core's rows.
  `ServersAsLive`, `NoRollback`, `QuitFlushes`, `EditsReachDisk`: the files follow the live
  configuration, no save takes an edit of another window back, quitting leaves nothing behind.
  `BackupWhole`: a backup is one saved state. `SealedUntouched`: a file that could not be read is not
  overwritten.
* `RoleDelivered`: the coordinator withholds a role as unchanged only when the present feed has it.
  `ServedHasView`: plan and store agree through elections and respawns.
  `AppliesLatest`, `BelievesTruth`: a feed applies no superseded role, and believes applied what its
  present client was asked for. `PlanServesCharts`, `Settles`: charts are served, and the clients end
  up with exactly what they need.

### Findings

Each is a run that must end in a violation, and quotes the comment it contradicts in `PROJECT.json`.

* `exit`: an order may go out while the retained snapshot shows another TP/SL than its own, although
  nothing was given up: a field the core rewrites after the confirmation is not checked again.
* `report_race`: the user's delete reads the live report handle and sends `ForgetCore` to the writer
  later. A feed run that starts in between, or a link that returns and rechecks the open rows, has been
  told to resume above n; its first page above n is applied to the emptied replica and records a
  frontier of at least n, so the rows below are never downloaded again.
* `revert`: the window drops what it sent when the core's revision moves, and a `Drained` still in the
  session's channel when the next write is enqueued moves it past that write. The Apply after that
  sends the old value of the area's other setting back, on a link that loses nothing.
* `uid_reuse`: the draft of the Settings window is a clone with its own uid counter. A core saved by
  the connect wizard meanwhile raises the live counter and is pushed into the draft without its
  counter; dropped again from the draft, its uid is issued by the draft's next save to another core,
  which inherits the rows the stores keep under it.

### Known limits that no run shows

Of the settings serializers and the page:

* A reconnect inside the run charges the attempts it loses, though the comment of
  `prepare_reconnect` says that sends lost to a reconnect must not spend the budget: that method runs
  only between runs.
* After a restart of the core, an edit is folded over the page of the departed process until the new
  one publishes its own.
* The notice of a given-up edit is lost when a satisfied edit ahead of it clears the row in the same
  pass.
* An outage reverts an Apply as `revert` does: `settle_pending` drops the entry of a page that is not
  live while the edit stays queued.
* The compact packet after a reconnect is planned on the retained snapshot of the old connection
  until the first echo.
* With a compact write on the import's own field, a full snapshot from before the import, still
  unread, confirms it: the refusal of an import that is already so compares the overlaid page, the
  confirmation the raw snapshot. `shared` keeps the two on different fields.
* The page is built twice per iteration, once to publish and once to decide. `Racing` lets a snapshot
  arrive in between; `shared` and `page_live` allow it.
* A row announced in the iteration of a restart is published behind `RunStateForgotten` and stays
  until the next edit. `RowHasWork` excepts it.
* With a toggled field, the shared serializer ends quietly on the wrong value: the core takes edit 1
  behind a snapshot of the old value that is still unread, edit 2 (back to that value) is lost, and
  the old snapshot confirms both. `LastWishHeld` fails with edits to 1 and back to 0 over a lossy link.
* `page_live` never fails a `run()` after an outage: the batch that carries the verdict is lost with
  the run, and the row stays pending with an empty queue.
* `page_live` overlays no setting the compact packet writes. With one, an edit that is contradicted,
  then refused by the link, then satisfied in the same iteration leaves the queue quietly, and its row
  stays pending. `RowHasWork` fails in both cases once the bounds admit them.

* A restart of the core may pass the window by. `settle_pending` looks when the window is notified, and one
  notification may cover the restart, the new connection and the new page. The page is then live again,
  and the queue was forgotten without a `Drained`, so neither condition holds and the sent values are
  laid over every page until the next drain. The comment (`core_expert.rs:187-189`) promises that an entry "is dropped once its
  core's write queue ran empty after the send ... or the core lost its page". `WindowFollows` excepts exactly
  this state (`Unnoticed`: an edit was forgotten, the page is live, no drain since the send); without the
  exception TLC finds it violated in `page_live`.

Of the report and the configuration:

* The resume point of a replica written before the frontier existed is its highest row, so a hole
  below it stays; the code documents this. `blind` marks such rows, and the properties except them.
* `given.overtaken`: the start a new run is given is the one in memory, which lags behind the writer. A run
  may be given the checkpoint of the departed core database while the alive map of the present one is
  still queued; its first page then resets a replica that was complete. If the map and that page share a
  batch, its two states are published one after the other (`report_writer.rs:453`), and a run that starts
  between them is given a checkpoint the same commit has undone: the rows below it are not asked for.
  TLC finds `NextRunMissesNothing` violated with 2 changes, 2 runs that end and 1 recreation.
* `given.unmasked`: a batch may hold a reset reported by an ended run and a delete on the live one. The
  declaration for the first fails, and `resync_declared` ends the wait of the core, which was the delete's;
  the declaration for the second then finds no wait to put its number in. The alive map of the download
  the delete replaced lands, and its checkpoint stands above rows that were deleted. TLC finds
  `DeletedStartsFromZero` violated under `CalmDeletes` with 2 changes and 1 each of link losses, runs that
  end, recreations and deletes.
* `given.late`: a delete comes right behind the last page of a catch-up. The writer acknowledges the page and
  declares the fresh download in the same turn or the next (`report_writer.rs:512-529`), before the feed has read
  `SyncComplete` and asked for the alive map (`feed/live/mod.rs:2298-2305`). The first page of the fresh download ends
  the wait of the delete (`rep.rs:811-813`); if the core answered it before the map, the map of the download
  the delete replaced is applied and commits its position above rows that were deleted and not downloaded
  again. If the terminal dies then, the next run resumes there and the rows stay missing. `rep.rs:841-842` says that after
  a delete "the next download starts from zero", and `docs/ARCHITECTURE.md:628-632` that the map of the replaced
  catch-up is skipped. The ghost is set when the feed asks for the map of a download that is no longer the declared
  one; without it TLC finds `NoHole` and `Reconciled` violated in the scenario `MCDeleted`.
* The passing run `report` assumes that a delete neither meets nor outlives a connection change
  (`CalmDeletes`); `report_race` drops the assumption.
* `HistoryKept` assumes that the stores can be read at start. Four faults together reuse a uid: a
  crash between the two files of an added core, a failed repair of the pair at load (it is not
  retried), a crash between the files when the core is dropped again, and a start that cannot read
  the stores. The code calls the floor best-effort.
* A save of the draft that fails at its last step leaves its settings on disk though it is reported as
  failed.
* With `servers.enc` absent, the start is a fresh one and ignores the counter in `settings.toml`.
* `set_alert_def_strategy` writes the live configuration only; a Settings save with an older draft
  takes it back. `NoRollback` speaks of the edits that are mirrored into the draft.

Of market routing:

* A view is not tied to an exchange. A core respawned on another exchange within the linger keeps its
  entry in `wanted`, so `reset_market` does not run and the book and the last price of the old
  exchange stay in the view until the new ones arrive.
* `drop_core` forgets the plan of a removed core but not its views; they stay in the store until the
  core is elected again and the market reopened. `drop_provider`, whose comment promises it for a
  disconnect, is called only by an election.
* The result of `subscribe_all_trades` is ignored and its role recorded as applied; only the books are
  retried. The model assumes that this call is not refused.
* A respawn by `reconcile` does not call `fulfilled`, so a request deferred by the gate costs one
  respawn more.

## Fairness

`ClientSettingsSequence.Fairness`: the feed thread never blocks, so a command in the channel is
taken and `drive()` runs (weak fairness of `TakeCommand`, `Drive` and the loop). A send MoonProto
refuses is repeated on each wake; that it is not refused for ever is assumed (strong fairness of
`Send`). The deadline passes, and a connected core publishes. Nothing is assumed of the link: it may
lose every packet, because the code's own deadline and budget have to make up for it.

`SettingsPage.PageFairSpec`: the loop turns, and takes its commands (strong fairness, because the drain
may choose to drive first); the connection comes up again and again;
the core publishes what it has to; the deadline passes; the store takes its messages and the window
looks at the store. Nothing is assumed of the link or of what the core does with a packet.

`ReportReplica.FairSpec`: every actor keeps working: the feed forwards, asks for the alive map and judges it, the writer takes,
commits and publishes, the core answers. Nothing is assumed of faults: they may happen or not, within
the scenario.

`ConfigPersistence.Fairness`: the coordinator ticks every 100 ms, the worker and a save that began run
to their end. A user's edit, a crash and a failure are not fair.

`MarketRouting.Fairness`: `set_open` runs once a second at least and sends what it decided, the session
drains its feeds and hands out due respawns, each feed's loop turns, deadlines and the gap pass, and a
core that can be reached comes up and names its exchange (weak fairness of `SessionTurn`, `Time`, and
of `FeedTurn` and `Comes` of each core). That a move of a core is noticed is assumed too: the code
notices a restart, or a market list of which a quarter is new. Charts, settings, losses, moves, new runs and
refusals are not fair; the scenario bounds them, so `Settles` speaks of what follows the last of them.

## Proofs

`ClientSettingsSequence_proofs` holds for all fields, values, edits, orders and bounds, from the
assumptions named in `ClientSettingsSequence` (edits are mutations, at least one attempt, first
settings are settings, the null values are not data).

* `CoreInvariant`. `CoreInv == TypeOK /\ SettleClean /\ PendingCoversPrefix` is inductive.
  `SettleClean` (no awaited packet while the loop runs) is what makes popping the head sound:
  without it, a satisfied head could be popped from under a packet that counts it. `TypeCorrect` and
  `PendingCorrect` follow. The packet is the subject of `ApplyProperties`: folding mutations over a
  snapshot yields a snapshot, with the last writer of each field.
* `BudgetCorrect`, with `BudgetInv == BudgetIsHeads /\ AbandonedAfterBudget` relative to `CoreInv`
  (a mutation is given up only after its full budget of packets): an abandoned mutation is the head, and the counter never exceeds the head's own packets.
* `OvertakingCorrect`, relative to `CoreInv`: a packet covers a prefix that ends before the first
  order (`IsPrefix`), and popping keeps positions in order.
* `StaleOrderCorrect`, with `ConnectionInv == OrdersHere /\ ClicksHere /\ NoStaleOrder`: orders in
  the queue belong to this connection, and so does any click in the channel that is not late.

`ClientSettingsOrders_proofs` continues, from the same assumptions.

* `BarrierCorrect`: `Spec => BarrierSpec`, the refinement of `OrderBarrier`. `BarrierStep` maps each action
  to a step of the abstract queue or a stutter: what `TakeCommand` appends is a `Join`, popping on a
  confirmation, on satisfaction or on a spent budget a `Settle` of a prefix without an order,
  `PlaceOrder` a `Place`, and the three endings of a connection a `Clear` of the whole line. The
  supporting invariant is `Numbered`: serial numbers along `done` and `queue` are consecutive.
* `BoundedWaitCorrect`, with `WaitInv == BudgetInv /\ Numbered /\ Waiting /\ Waited`. `BoundedWait` speaks of
  all packets sent while an order waits; what is inductive is `Waiting`: that count is at most
  `MaxAttempts` for each mutation before it that has already left, and the attempts of the head on top.
  The mutations before it are counted by serial number (`Before`), so that the count survives every pop.

`SharedConfigSequence_proofs` holds for all fields, pages, edits, patches, budgets and bounds, and for
every choice of `Lossy`, `Refusing`, `Listening`, `Racing` and `Episodes`, from the assumptions named in
`SharedConfigSequence`.

* `SeqInvariant`. `SeqInv` is inductive; `SharedTypeCorrect`, `SharedPendingCorrect`,
  `SharedBudgetCorrect` and `OneWriterCorrect` follow. Beside `TypeOK` it says:
  `SettleClean`, that nothing is awaited and no import observed while the loop of `next_action()`
  pops and charges; `QueueOK`, with `Ordered`: attempts never increase along the queue, and no edit
  has been charged more often than it was sent; `Covers`, the awaited packet in the form that survives
  an append: each field it asked for has a last writer among the entries it counts; `DoneOK`, that
  whatever was given up paid its budget; and `WriterInv`, `OneWriter` with `settling` in view. Neither
  `PendingCoversQueue` nor `BudgetInOrder` is inductive alone: the first needs `SettleClean` when the
  loop pops a satisfied head, the second needs that all entries are charged together.
  `FoldProperties` is the lemma on packets: folding the queue over a page yields a page that holds,
  of each field, the value of its last writer, and the base's value of a field no edit names.
* `AnsweredOnceCorrect`, with `AnswerInv == ChannelInv /\ ObservedInv /\ OnceInv` relative to
  `TypeOK`: commands in the channel are numbered in order and younger than every answer and than the
  request observed, which has only been answered "submitted". An answer therefore never meets an
  older one of the same request, but for the outcome of the one observed; and `cancel_automation`
  forgets the request in the step that answers it.
* `ConfirmedCorrect`: `ConfirmedByNewEcho`, assuming `Apart`: no patch names a field the compact channel
  overlays. `EchoInv`: the retained snapshot contradicts an unanswered import (`Unechoed`), because the
  refusal of an import that is already so was decided on the page built from it, and the two agree
  outside the overlay (`PairedPages`). `Apart` is necessary: with a patch of an overlaid field TLC
  finds `ConfirmedByNewEcho` violated, by the unread snapshot described among the known limits.

`ReportReplica_proofs` holds for every number of rows and every scenario.

* `ReportTypeCorrect`: the types of the two databases, the batch and the channel; a checkpoint is never
  published without an epoch, a start is never below 1.
* `AwaitedCorrect`: `AwaitedFromZero`. While `awaiting_resync` is set, every message that could make a
  frontier or a checkpoint durable is filtered by the writer, in the candidate as well as in the
  committed state, which is why the invariant speaks of both.
* `StaleCorrect`: `NoStaleContent`, with and without `CalmDeletes`. `ContentInv`, relative to `AwaitInv`,
  has three parts. `OrderInv` follows the values of rows through the channel: they come in the order
  of the core's databases, and a `Recheck` stands between two of them, because the core can be
  replaced only while the client is away and the feed sends one when it is back. `Claims` follows the
  epochs: whoever may pass one on to a checkpoint (the published start, the client's position, the
  awaited alive map, the open batch, what is to be published and acknowledged, the messages)
  holds one that is *vouched for*, older than nothing the writer has or is still to be told
  (`Floor`). `Holds` is the property, of the committed database. The difficult case is a page
  that reports a replaced database (`PageVouches`). It vouches by the reset it causes, and when
  a delete makes the writer skip it, by `AwaitedRows`: until the next `Recheck` the waiting
  candidate has no row older than what follows.

`ReportHistory_proofs` continues, for every number of rows and every scenario with `CalmDeletes`.

* `NoHoleCorrect`: `NoHole`. The property speaks of a start state and the committed rows, but a start
  state is the last of a chain of positions: the cursor of the client, the page in the channel, the state
  the batch will publish, the frontier or checkpoint it commits. `HistoryInv` says of each link of that chain
  what the property says of the last: every row served below the position is in the candidate
  database, or will be when the messages in front of the one that carries the position have been applied
  (`Covered`, through `Comes`; `Held` for a database). `Claimed` are the links in the client and the channel,
  `Remembered` those in the batch, in memory and on disk. A link binds nobody when it speaks for another
  database than the core serves (`Valid`, `Speaks`), when it will be skipped (`Skipped`, `Ignored`), or when a delete is
  under way (`Void`).
* What makes the claims inductive is the rest. `Era` and `Content`: nothing is younger than the core's
  database, and its rows come last. `Retired`: a live deletion on its way is never of a row still served, so no
  message but a reset takes a claimed row away. `Book`: one page of the declared download is under way
  (`OneAnswer`), the completion whose alive map is due, and the map in the channel, hold what the client holds or are of a
  download that another has replaced (`Phases`, `Confirms`), a wait for a number is the wait
  for the declared download, and no page or map of another is behind its first page (`Awaiting`), no `Recheck` meets
  a delete (`NoRecheck`, where `CalmDeletes` is used), one delete is under way (`OneDelete`). `Clear`: a client that began without
  knowing the served database does so while nothing of the terminal speaks for it (`Knowledge`), so that the
  reset its answer brings destroys no claim; this is the conjunct that `given.overtaken` excepts, and
  `given.unmasked` marks the one step that takes the mask off a claim still in the channel. What is
  inductive is `Timely == ~given.late => HistoryInv`: the ghost is never reset (`LateStays`), and the only step
  that could set it, `AskAliveMap`, is a lemma of its own (`AskStep`).
* The proof has one lemma per action; the writer's `Apply` is split by the effect of the message on the
  candidate (`ApplyEffects`) and then by part of the invariant.

`ConfigPersistence_proofs` holds for every number of uids and every scenario.

* `ConfigTypeCorrect`: each authority, file, snapshot and request keeps its shape.
* `HistoryKept`: `NoInheritedHistory`, assuming that the wizard does not run beside an open draft and that
  the stores can be read at start. The invariant `HistoryInv` follows a uid along all the places it
  can be issued from: in the live configuration (`LiveKept`), the draft (`DraftKept`), the files in
  every state of a torn save (`DiskKept`), the save under way (`WriteKept`) and the requests waiting
  for it (`RequestsKept`), the counter is above every uid the stores know, or the uid belongs to the
  core they know it of.

Its second part, about the files, needs neither restriction: the theorems hold for every number of uids,
every scenario, and with the wizard beside an open draft.

* `FilesInv` has five parts beside `TypeOK` and `Jobs` (which thread may be writing what): the seal is one for
  live configuration, draft and snapshots (`Sealing`); the files agree unless the marker is there, and
  a save that passed a step has left it behind (`Files`); any snapshot about to be written that is not
  an install lists the live rows (`RowsHeld`) and lacks no edit already on disk (`EditsHeld`); and an
  unset dirty flag means that the edits are on disk or in the request under way (`Flushed`).
* `ServersCorrect` and `QuitCorrect` are conjuncts of it or follow directly; `BackupCorrect` needs `Files` when
  the backup is taken. `SealedCorrect` and `RollbackCorrect` are action properties: the second compares,
  action by action, what is written or installed with what is live.

`MarketRouting_proofs` holds for all finite sets of cores, all exchanges, markets and scenarios.

* `MarketTypeCorrect`: `TypeOK`, inductive with `HeldHasPlan` (a feed that holds the mutex has a role).
* `PlanCorrect`: `ServedHasView` and `LeavingServed` (a deadline belongs to a market still served),
  inductive together: an election forgets plan, deadlines and views of the deposed provider in one
  step, and a market enters the plan only with a view.
* `RoleCorrect` and `LatestCorrect`: `RoleDelivered` and `AppliesLatest`. Both rest on the mutex: `latest` changes only
  while the feed does not hold it, and every step that replaces a feed forgets its `lastCmd`.
* `BeliefCorrect`: `BelievesTruth`, inductive with `NothingAsked` (while no role is applied the client
  was asked for no book).
* `PlanServes`: the action property `PlanServesCharts`, from the type invariant.

Only model-checked: `LastWishHeld` of either serializer, `RowHasWork` of `SettingsPage`, `Reconciled` of
`ReportReplica`, and every liveness property. `LastWishHeld` and `RowHasWork` hold only within the
bounds of their runs (see the known limits), so a theorem would need hypotheses that exclude those cases,
and an invariant that relates the packets sent, the one in the link, the snapshots retained and the fate
of each edit. `Reconciled` needs of the visibility of every row what `HistoryInv` says of its presence. Liveness under fairness and what a recursive definition computes are outside the
prover; no definition here is recursive.

## Not modelled

* Time: deadlines are events that may happen once their clock runs. `LIVE_TTL`, `ECHO_TIMEOUT` and
  the automation deadline are therefore allowed at any moment.
* The respawn of a feed as it touches the settings serializers: those models end with the feed they
  describe. `MarketRouting` models the respawn for the roles only; a feed still stopping has no part in
  it, because its channel, mutex and client slot were replaced.
* `ReportReplica`: the branch that forgets an archived core, the purge of a legacy table at
  `SyncComplete`, a `reconcile_alive` refused on a live link, the ignored answers of `alive_map_action`, schema
  rejection, the queue's capacity, the open-row check. Of the core and its client it assumes that
  handles of an ended client fail, that answers come in order, and that an alive map awaited across a
  link loss may be lost.
* `ConfigPersistence`: rows without a uid in old files, migrations, encryption slots, the other files
  (theme, orders, hotkeys, badges) and classes of the coordinator, the plain-text environment.
* `MarketRouting`: what a view contains, the order-book kind, candle subscriptions, archives, the
  headless station (`map_cores_to_themselves`), an `IdentityStale` during a core update, which is left
  to the updater, a feed that stopped retrying.
* `NewRun` is allowed whenever the connection is down, a superset of the failures of `run()`.
* Several selected cores and several areas in the settings window: cores are independent, and an
  area is what one packet stamps.
* The other components are listed in `PROJECT.json` with the reason.

## Plan

1. `ClientSettingsSequence` with the gate, the lifecycle, the link and the core; abstract
   specification `OrderBarrier`; proofs of its safety properties. *Done.*
2. `SharedConfigSequence` with its theorems, `SettingsPage`. *Done.*
3. `ReportReplica` with its theorems. *Done.*
4. `ConfigPersistence` with its theorems. *Done.*
5. `MarketRouting` with its theorems. *Done.*
6. `SettingsWriters`: both serializers over one retained page and one core, for the one-way gate.
7. Order-line retirement, publish gates, the open-row check, the core move, the updater's swap.

Theorems still worth proving: `Reconciled` of `ReportReplica`, which rests on `HistoryInv`; `LastWishHeld` of `SharedConfigSequence` for edits that never return to an earlier value of their
field, whose invariant has to relate `done`, `slot`, `full` and `core`.

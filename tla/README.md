# A verification model of iguanatrader

iguanatrader is a semi-automatic trading system: strategies propose entries, a
risk engine checks them, a human approves them over a chat channel, a broker
executes them, and sweeps protect and close the resulting positions. Two
daemons (one on paper money, one live) and an API process share one database.
This directory models the parts of it whose correctness depends on the order in
which things happen, checks them with TLC on small instances, and proves the
most important results with TLAPS for every instance.

Paths below are relative to `src/apps/api/src/iguanatrader/`.

## 1. Inventory

| Component | State it keeps | Operations | What is hard | Must hold |
|---|---|---|---|---|
| Message bus and unit of work (`shared/messagebus.py`, `shared/contextvars.py`) | subscriptions, a queue and a dedup window each, an outbox per unit of work | subscribe, unsubscribe, publish, worker loop, aclose, run_in_session_scope | publish buffered until the commit, cancellation between commit and fan-out, window filled after the handler, poison events | nothing uncommitted is delivered; window bounded; committed events reach live subscribers |
| Human approval (`contexts/approval/service.py`, `repository.py`) | `approval_requests`, append-only `approval_decisions` with UNIQUE(request_id) | create card, record decision, sweep expired, bridge to trading | human against sweeper, two sweepers, roll-back of a whole tick | first decision wins, only grants are acted on, every expired card is decided |
| Channels and commands (`contexts/approval/channels`, `api/routes/approvals.py`, `api/routes/mcp_hitl.py`) | recent command keys per process | dispatch, approve, reject, halt, resume | three transports with three different transaction endings | an answered command has had its effect |
| Trading service, entries (`contexts/trading/service.py`) | `trade_proposals`, trading toggle | propose, risk check, execute on approval, reject | state read before a long await; drain on restart; two modes | no execution without allow and grant; kill switch; own mode only; once |
| Trading service, fills and closes (same file) | `trades`, `orders`, `fills` | place, reconcile fills, close, orphan close | time-outs with unknown outcome, crash around the placement, bracket legs | the ledger never claims what the broker does not hold |
| Broker link (`brokers/ibkr_adapter.py`, `shared/heartbeat.py`) | connection state, client, heartbeat and reconnect tasks, known executions | connect, ensure_connected, heartbeat, reconnect, catch up, disconnect | two tasks that hand the link over, a shutdown or callback in between, half-dead sockets | one monitor; losses told once; executions caught up once; outages end |
| Ephemeral gateway (`brokers/ephemeral_gateway.py`) | lease window, release timer | ensure_up, schedule_release, delayed release | clocks of two machines, a delayed release against a new order | trusted window inside the lease; release after a quiet delay; leases end |
| Daemon lifecycle (`contexts/trading/daemon_lifecycle.py`) | drained proposals, poll watermark | drain, poll, reconcile positions | runs while the bus already delivers | no pending proposal survives a restart undecided |
| Risk engine and kill switch (`contexts/risk/service.py`, `repository.py`, `engine.py`, `protections/`) | append-only kill-switch events, the cached state, risk evaluations, equity snapshots | evaluate, activate, deactivate, auto-breach | written by four kinds of process, read without a lock; order of stamps and of commits | the cache is the last commit; a breach trips the switch, once a day; a halt stops evaluations |
| Stop management (`contexts/risk/*_sweep.py`, `stop_management.py`, `position_review.py`) | `trailing_stop_audit` rows | trail, watch levels, review positions, ask for exits | three sweeps, cards and a close worker over the same trade; swallowed errors | stops never loosen; a hit level is closed; no exit without a cause; one card |
| Research briefs (`contexts/research/service.py` and what it calls) | `research_briefs` versions, facts, the session's transaction | register, ingest, synthesize, insert, announce | MAX+1 under a race, SAVEPOINTs that commit or keep the write lock, retries in a dead session | versions linear; only committed briefs announced; the lock comes back |
| Orchestration (`contexts/orchestration`) | job table | cron jobs in a unit of work each, 180 s each | a swallowed exception still commits | a tick is all or nothing |

Replay, journals, market data, strategies, HTTP views, channel dispatch, web
front end, migrations and deployment are off these paths; PROJECT.json lists
each with its reason, section 5 the ones worth a word.

**Interactions.** A strategy tick calls `propose`, which publishes
`ProposalCreated`; the risk service answers with `ProposalRiskEvaluated`; the
trading service with `ApprovalRequested`; approval inserts a card and sends it.
A decision is published as an approval event, which the bridge turns into
`ProposalApproved`, `ProposalRejected` or `CloseTradeRequested`; trading then
leases the gateway where it has to, and places orders. The sweeps publish
`CloseTradeRequested` and `ExitApprovalRequested` on the same bus. Every arrow is
an event on the in-process bus of ONE daemon, and every handler runs in a unit
of work of its own whose events leave only after its commit. Processes meet only
in the database and at the broker.

## 2. Modules

| Module | What it is |
|---|---|
| `BusContract` | abstract: what the bus promises publishers and subscribers; kept back until the commit, handed over once, handled in order |
| `MessageBus` | the bus of one process and the unit of work around every delivery and cron tick |
| `ApprovalContract` | abstract: what human approval promises; first decision wins, only grants are acted on |
| `Approval` | cards, three channels, the sweeps of both daemons, the write lock, the bridge |
| `EntryPipeline` | an entry from the propose tick to the committed order, in both daemons |
| `LedgerContract` | abstract: what the ledger promises; a trade is opened once, a lot is booked once and only after an account executed it, a trade ends sold or flat |
| `TradeLedger` | trades, orders and fills of both daemons against broker accounts, from the broker call of an entry to the close |
| `SwitchContract` | abstract: the kill switch as one switch with one append-only history |
| `RiskControl` | the kill switch with its event log and cache, the seven protections, the risk state they read |
| `BrokerLink` | the connection of a daemon: states, heartbeat, reconnect, catch-up, loss hook |
| `LiveGateway` | the on-demand gateway over `BrokerLink`: lease, window, polling, release, in the code's timeouts |
| `StopManagement` | pure: the trailing-stop formula, level comparisons, the reconciliation of positions with resting orders |
| `StopSweeps` | the three sweeps, exit cards and the close worker over those functions |
| `BriefRefresh` | the brief jobs of daemons, requests and commands over SQLite's transactions |
| `MessageBusProofs`, `ApprovalProofs`, `EntryPipelineProofs`, `TradeLedgerProofs`, `RiskControlProofs`, `LiveGatewayProofs`, `StopSweepsProofs`, `BriefRefreshProofs` | the theorems |
| `MC...` | instances for TLC |

**How they compose.** The system is layered, and each layer is checked under
the assumption the one below it justifies. `MessageBus` shows that a handler
never sees an uncommitted event and that a committed event reaches every live
subscriber. The other modules may therefore treat "commit, then publish" as one
step of a handler where nothing can come between them, and split it where
something can (the flush of a Telegram tap, of a sweep tick, of a brief job).
`Approval` opens up what happens between the card and the bridge;
`EntryPipeline` sees a card only from outside: one decision, at most one outcome
event per decision, and the phantom timeout that `MCApproval_split.cfg` shows the
real sweep can emit (`SweepPhantom`). Both implement the same
`ApprovalContract`, with `actedOn` read as "the bridge told trading" in one and
as "an order was sent to the broker" in the other. `RiskControl` opens up the
answer of the risk check and the switch that `EntryPipeline` takes as given, and
`LiveGateway` (which extends `BrokerLink`) the wait for the gateway.
`TradeLedger` starts where `EntryPipeline` ends: an entry is sent at most once
there, and once here; what the broker does with it, and how the ledger hears of
it, is opened up. `StopSweeps` is where its exit requests come from: hit levels
and granted exit cards. `BriefRefresh` stands beside the order path and shares
with it the database's one writer.

### 2.1 MessageBus

| Variable | Code |
|---|---|
| `closed`, `routed` | `MessageBus._closed`, `_subscriptions` |
| `queue`, `recent` | `Subscription.queue`, `_recent_keys` (the deque; its mirror set is the same data) |
| `current`, `pc` | the event the worker holds, and whether its unit of work is running or flushing |
| `outbox` | `publish_outbox_var` of the context |
| `durable`, `clean`, `settled`, `lost` | history: committed events, clean deliveries, deliveries that ended, events whose fan-out was cancelled |

`Take` is the worker's `queue.get`; `BufferedPublish` and `DirectPublish` are the
two branches of `publish`; `Commit`, `Fail` and `Flush` are
`run_in_session_scope`; `FinishDelivery` records the key after the handler, which
is why two copies that were queued together are both handled. `Unsubscribe`,
`Close` and `Crash` cancel workers at any point, between commit and fan-out too.

`BusContract` knows no contexts, tasks, keys or windows: an event is `open`, then
`due`, then `waiting` for each subscriber, then `handling`, then `ended` (handled,
or spared by a window). `MessageBus` implements it with `open` and `due` read from
the outboxes of contexts that run or flush, `waiting` and `handling` from queues and
workers, `ended` from the history of deliveries. Nothing in it can hand an event
over twice, before its commit or out of its order in a queue; losing one is allowed.

### 2.2 Approval

| Variable | Code |
|---|---|
| `row`, `decision` | `approval_requests` (with whether `expires_at` has passed), `approval_decisions` |
| `lock` | SQLite's single writer, taken by the first INSERT of a transaction |
| `job`, `pc`, `seen` | a channel's command, how far it got, and `_recent_keys` of the dispatcher |
| `sweep`, `todo`, `batch`, `outbox` | the tick of `sweep_expired_requests`: its SELECT, its loop, its uncommitted inserts, its buffered events |
| `bus`, `told` | events on a daemon's bus; what its bridge published towards trading |

The three channels differ only in how their transaction ends, and that is where
the actions differ: `CommitTap` and `FlushTap` (Telegram, a unit of work of the
daemon), `CommitMcp` (the API process commits, and its bus has no bridge),
`EndDashboard` (the session is closed without a commit). `SweepConflict` is the
rollback of a whole tick by another decision, with the outbox left in place.

### 2.3 EntryPipeline

| Variable | Code |
|---|---|
| `prop`, `config`, `fresh` | `trade_proposals`: state, strategy configuration, younger than the dedup window |
| `row`, `decision` | the approval card from outside |
| `trade`, `order` | `trades.state` and the entry row of `orders` |
| `active`, `enabled` | kill switch and trading toggle of a mode |
| `toggled`, `polling` | the daemon's watermark (`_last_seen_at`) and `_poll_initialised` |
| `tickAt`, `tickTodo`, `tickConfig`, `batch` | the propose tick, its loop over configurations, the entry gate it awaits, its uncommitted proposals |
| `bus` | the events queued on a daemon's bus |
| `execAt`, `execOf`, `outcome` | the worker of `execute_on_approval_handler` |
| `by`, `unheard`, `vetted`, `refused`, `sent`, `halted` | history: who inserted a proposal of the window, which cards were decided through MCP, what was allowed, refused, sent |

A card is decided by `HumanDecides`, a tap in Telegram that reaches the polling
daemon's bus, by `HumanDecidesMcp`, which the API process commits and
nobody forwards (`api/routes/mcp_hitl.py:303-310`), or by a sweep. Both daemons
propose over the configurations of both modes.

The tick is cut at the entry gate, the long `await` between its guards and its
insert. The execution is cut twice: after its checks (the wait for the on-demand
gateway) and after the broker call (the commit). `WriteLockFree` is the lock an
execution holds across the broker call. `Crash` loses everything of the daemon
but what is committed or sent.

### 2.4 TradeLedger

| Variable | Code |
|---|---|
| `trade`, `rows`, `fills` | `trades.state`, which `orders` rows a trade has, `fills` by account and order |
| `sent`, `done` | the broker: orders an account accepted, lots it executed |
| `entering` | the broker's answer an execution holds until its commit |
| `asked`, `keyed` | the close requests queued in a daemon and the dedup window of its close worker |
| `cached` | `IBKRAdapter._client_order_cache` |
| `closing` | the trade that `close_trade` is closing |
| `recon`, `found`, `flat`, `behind` | a reconciliation: its phase, executions still to handle, trades whose symbol the account does not hold, executions the next window may miss |
| `lost` | history: exits placed and not recorded |

An order is one of four roles of its trade (`entry`, `exit`, and the bracket legs
`stop` and `target`), because its `client_order_id` is derived from the trade and
the role. The database is shared, every daemon has an account of its own. `Enter`
lets an order that timed out live or not; `Exit` is cut at the broker call, and
ends in `ExitCommit`, `ExitTimesOut` (the handler swallows the error, so the key
is recorded) or `ExitFails` (rollback, no key). `ReconStart` reads executions,
`ReconFill` and `ReconMissing` handle them one by one with a commit each,
`ReconPositions` reads the account's book and `ReconEnd` closes orphans. `Execute`
and `Working` are the broker, with the one-cancels-other legs of a bracket.

`LedgerContract` knows no daemons, requests or reconciliations: an account executes
lots (`Execute`), `Open` and `OrderExit` record orders, `Book` books one executed lot
of a recorded order and closes the trade when an exit is complete, `Settle` closes
trades that have lots on the books. `TradeLedger` implements it with its own
`trade`, `rows`, `fills` and `done`.

### 2.5 RiskControl

| Variable | Code |
|---|---|
| `positions`, `closes` | open `trades`, and what was realised when (`realised_pnl`, with whether by a stop) |
| `equity` | `equity_snapshots` in order of `created_at` |
| `log`, `cache` | `kill_switch_events` in order of commit; `kill_switch_state` with `last_event_id` |
| `lock` | SQLite's writer |
| `pc`, `decision`, `stamp`, `draft` | a worker's step: the evaluation of a daemon, or a halt or resume of a terminal or chat; what it read as "now"; its unflushed event |
| `seen`, `told` | a chat's command keys (sender, command, 30-second bucket) and the answer it shows |
| `announced` | events published as transitions (the upsert changed the row) |
| `breaches`, `late` | history: regime rejections by day; evaluations accepted after a halt |

`Gate`, `Load`, `Save`, `Check`, `Trip` and `Commit` are `evaluate_proposal` cut
where it awaits: the switch is read before the risk state, the state before the
lock. `Load` computes the state from trades and equity and asks the protections
in the code's order. `Command` and `Submit` are `/halt`, `/resume` and
`iguanatrader ops`; `Fail` ends any unit of work. The clock moves over a day and a
week.

`SwitchContract` has neither workers nor a lock nor a cache row: a command enters the
history with a stamp of now or earlier and takes effect in the same step, a self-trip
only if none of its day or a later one is in the history, and only a command that
changed the switch may be announced. `RiskControl` implements it with `active` read
from the committed cache row.

### 2.6 BrokerLink and LiveGateway

| Variable | Code |
|---|---|
| `onDemand`, `up` | the adapter's role; external: the gateway accepts connections |
| `state`, `client` | `ConnectionState`, `_client` with its socket |
| `hb`, `rc`, `attempt`, `shutting`, `gaveUp` | `_heartbeat_task`, `_reconnect_task` and its attempt, `_shutting_down`, `_emit_killswitch` |
| `executed`, `since`, `known`, `told` | external executions, those since `_last_disconnect_at`, `_known_exec_ids`, history |
| `opened`, `lost` | history: `mark_connected` calls that opened the link, loss hooks |
| `lease`, `window`, `timer`, `releasing` | the sidecar's lease, `_ready_until`, the delayed release, its webhook call |
| `outcome`, `job`, `step`, `busy`, `age`, `wait` | the executions, the one running, its step, what its await may still take, the age of the clock it read, its deadline |
| `quiet`, `cut`, `begun` | history: ticks since an order was placed, a release after the grant, the faults when the execution began |

A link is either standing (heartbeat and reconnect) or on demand (leased by each
execution, `ensure_connected` as the hook); `Init` chooses. Time is a set of timers
that run down together in `Tick`, which stops where the code cannot let time pass.
Between the confirmed connection and the broker call lies the step `saving`: the
proposal's state and the trade are flushed, which may wait for the write lock
(`trading/service.py:784-812`). The link may be lost, released or run out there, and
nobody looks at it again before `place_order`; `Saved` and `SaveFails` end the step.

### 2.7 StopManagement and StopSweeps

`StopManagement` holds `compute_trailing_stop` with its mean true range,
`_is_stop_hit`, `_is_target_hit` and `reconcile_positions` as operators over bars,
trades, positions and orders; `StopSweeps` uses all of them, so that they are
exercised by the sweeps rather than against tables. `CleanIsProtected` says what a
silent reconciliation means, and by what it leaves out that the size of a resting
leg is never compared with the trade's.

| Variable | Code |
|---|---|
| `bars`, `held` | daily bars in the database; external: positions at the broker |
| `trade`, `stop`, `clock` | `trades.state`; the newest `trailing_stop_audit` row of a trade (by stamp), or the proposal's stop |
| `trailTodo`, `trailing`, `trailFrom`, `batch` | the trailing tick: its SELECT, the trade whose bars it awaits, the stop it read, its uncommitted rows |
| `raced` | history: the trades whose stop another daemon moved after a tick had read it |
| `hitTodo`, `hitting`, `hitClose`, `hits` | the stop-hit tick: the close it read, the requests it buffers |
| `review`, `evidence`, `assessing`, `alerts` | the urgent-exit tick: divergences and adverse moves, the advisor it awaits, its buffered alerts |
| `requests`, `pending`, `granted` | `ExitApprovalRequested` on a bus; open exit cards, by the daemon that inserted them; history: grants tapped in Telegram |
| `asked`, `keyed`, `closing` | the close worker, as in `TradeLedger` |
| `cause` | history: why an exit was asked for |

Each tick commits at its end, skips a trade whose data fails (`TrailSkips`,
`HitSkips`) and is lost as a whole by an error or its timeout (`TrailFails`,
`HitFails`, `ReviewFails`). `CloseSwallowed` is the broker error that
`close_trade_handler` logs, `CloseFails` the one that rolls back. `Grant` is a tap in
Telegram, which the polling daemon bridges; `GrantMcp` a grant in the API process,
after which nobody closes the trade.

### 2.8 BriefRefresh

| Variable | Code |
|---|---|
| `db` | what is committed: `research_briefs`, the registered symbols, those with a price |
| `lock`, `open`, `snap`, `work`, `dead` | SQLite and the session: who writes, whether a transaction is open, what it reads, what it has written, whether it must be rolled back first |
| `pc`, `todo`, `version` | where a job is, its remaining symbols, `next_version` |
| `outbox`, `bus`, `retained` | buffered events, events on the daemon's bus, briefs Hindsight was asked to retain |

The module spells out what the driver does, because the code relies on it:
pysqlite opens no transaction for SELECT or SAVEPOINT, so the first SAVEPOINT of a
session that is released is committed there and then, and one whose insert fails
is only rolled back *to*: the transaction stays open, and after a constraint
violation it holds the write lock. A transaction without the lock keeps the
snapshot of its first read and cannot write once somebody else has committed. A
flush that fails outside a SAVEPOINT (the brief's) leaves the session unusable
until a rollback that only the end of the job brings. `Savepoint`, `Duplicate`,
`Blocked` and `Rollback` are these cases; the steps of `refresh` are built from
them.

## 3. Runs

| Run | Shows |
|---|---|
| `bus_safety` | nothing uncommitted is handed to a subscriber; the window bounds how a key is handled twice; the bus implements its contract |
| `bus_live` | a committed event is handled, failed or suppressed by every subscriber that stays, whatever handlers raise |
| `approval_safety` | first decision wins and trading acts only on granted cards, for an entry and an exit card, three channels, two sweeps and a fault |
| `approval_live` | every expired card is decided; a grant tapped in Telegram reaches trading unless a process dies in between |
| `entry_safety` | two daemons over the configurations of both modes: no entry is sent twice; an order needs an allow, a grant and the right daemon; a configuration has at most one fresh pending proposal of each daemon; the pipeline implements the contract |
| `entry_live` | the kill switch lets at most the order in flight through; every pending proposal is answered, unless its execution is refused or its card was decided through MCP |
| `ledger_safety` | one daemon: the ledger implements its contract, so it books only executions, each once; a second exit needs a lost first one; a closed trade is not held |
| `risk_safety` | two daemons, a terminal and a chat over a change of day and week: a breach trips the switch once a day and always, only a change is announced, a halt lets each daemon accept at most what it had gated, and the switch implements its contract: its state follows the commits, in whatever order the events were stamped |
| `link_safety` | a standing and an on-demand link, two live entries, three faults: one monitor, losses told once, executions caught up once, the trusted window lies inside the lease, a release waits for a quiet delay, an order fails only by what happened to its link since its execution began; outages, orders and leases end |
| `sweeps_safety` | one daemon trails, watches and reviews a trade over three days: the stop is never lowered, one card at most, no exit without a cause, a hit level or a card granted in Telegram closes the trade unless the broker refuses; cards are answered through MCP too |
| `briefs_safety` | two daemons and a request refresh a symbol: versions stay linear, only committed briefs are announced, the write lock always comes back |
| `sweeps_breach` | violated: a refused exit is never retried |

`sweeps_breach` is the one run that ends in a violation: the broker refuses the
exit of a hit stop, `close_trade_handler` logs the error and returns, the bus
records the `trade_id` as cleanly handled, and every later request of the sweep is
dropped as a duplicate for the life of the process. The comment at
`contexts/trading/service.py:1378-1383` promises that later requests "still
process".

### 3.1 Configurations that are not among the runs

These are kept to be run by hand (`tlc -config X.cfg M`); TLC finds each property
violated, and the trace is what the code does.

| Configuration | Property | What happens |
|---|---|---|
| `MCApproval_split.cfg` | `NoSplitOutcome` | a sweep tick inserts a timeout for card A, meets a decision for card B and rolls everything back (`approval/repository.py:187`); the timeout of A stays in the outbox and is published, while a human grants A |
| `MCApproval_exit.cfg` | `ExitNeverRejectsProposal` | the sweep builds its event without `action_type`, so an unanswered exit looks like an unanswered entry |
| `MCApproval_dash.cfg` | `OkMeansDecided` | the dashboard answers ok and its session is closed without a commit (`api/routes/approvals.py:104`) |
| `MCEntryPipeline_dup.cfg` | `FloodGuard` | both daemons propose for one configuration in the same minute; neither sees the other's uncommitted row (`trading/service.py:419`) |
| `MCEntryPipeline_drain.cfg` | `DrainedStaysRejected` | the drain rejects a proposal and leaves its card; a later tap executes it (`trading/service.py:784`) |
| `MCEntryPipeline_cap.cfg` | `OpenWithinCap` | the cap is evaluated before the card is sent and never again |
| `MCTradeLedger_mode.cfg` | `ClosedIsNotHeld` | entries are gated on the daemon's mode, exits are not: the paper daemon sells a live trade at the paper account, its fills close the trade, the live account still holds it (`trading/service.py:1423`) |
| `MCTradeLedger_bracket.cfg` | `NoDoubleSell` | an exit card of a trade with native bracket legs: `close_trade` cancels neither leg, and exit and leg both execute (`trading/service.py:1453`) |
| `MCRiskControl_halt.cfg` | `HaltIsHonoured` | halt, resume, halt within one 30-second bucket: the second halt is answered ok as a duplicate and the switch stays off (`command_handler.py:205`) |
| `MCRiskControl_modes.cfg` | `DrawdownIsReal` | both daemons write snapshots; peak and newest equity are taken over both accounts (`risk/repository.py:179`), so the smaller account is "in drawdown" |
| `MCLiveGateway_release.cfg` | `OrderInsideLease` | the delayed release of the first order runs while the second is at the broker: only a *placed* order cancels it (`ephemeral_gateway.py:270`). A lease may also simply run out during the ping, the flush or the order, since the margin of 60 s (`ephemeral_gateway.py:64`) does not cover a ping of up to 90 s (`ibkr_adapter.py:75`) |
| `MCLiveGateway_watch.cfg` | `ConnectedIsMonitored` | the catch-up after a reconnect raises: the link is connected and neither task watches it (`ibkr_adapter.py:369`) |
| `MCBriefRefresh_batch.cfg` | `BatchGoesOn` | two jobs read the same version; the loser's flush kills its session, its "retry" and every later symbol of the batch are refused (`research/service.py:222`), against "one bad symbol never aborts the batch" (`orchestration/service.py:677`) |
| `MCBriefRefresh_latest.cfg` | `LatestIsDefined` | two briefs of a symbol in one second: `latest_brief` orders by `created_at` alone, against `research/repository.py:312-315` |
| `MCBriefRefresh_retain.cfg` | `BriefIsRetained` | `refresh` publishes without a `tenant_id`, and the retain handler skips such events (`retain_handler.py:69`) |
| `MCBriefRefresh_lock.cfg` | `NoCallUnderLock` | one duplicate fact and the write lock is held while the language model is called; other writers give up after 30 s, against `persistence/session.py:40-41` |

### 3.2 Deliberately weaker than one might expect

- `HaltStopsOrders` and `HaltStopsEvaluations` count one per daemon: the kill
  switch is read before a wait, so "nothing while active" is not what the code
  gives.
- `PendingIsAnswered` accepts `refused`: `OrderRejected` tells the operator and
  nobody updates the proposal, which stays pending.
- Decisions through MCP. The API process commits them and its bus has no bridge
  (`api/routes/mcp_hitl.py:303-310`), so no daemon hears of one: an entry's proposal
  stays pending for ever and an exit that was granted is not closed, with no failure
  anywhere. All three modules that have cards contain these decisions, and
  `GrantedIsActedOn`, `PendingIsAnswered` (`unheard`) and `GrantIsHonoured` (`granted`
  is set by taps only) each exempt them by name. None of the three says anything for
  the MCP surface.
- `OneCardPerDaemon` is what the flood guard gives: one pending proposal of each
  daemon. One of both together is `MCEntryPipeline_dup.cfg`.
- `ExitsAreAccounted` is not "one exit per trade": a timed-out exit leaves the
  trade open, and after a restart the daemon places another, which the broker
  does not deduplicate.
- `ClosedIsNotHeld` allows an exit that is still working, since an entry may fill
  further after the book was read. The ledger need not hear of every execution: a
  fill is looked for at boot and on demand only, and one that was passed over for
  want of an order row may lie outside the next window.
- `LossIsToldOnce` allows one more hook when a shutdown interrupts the retries:
  `disconnect` reports a loss that was already reported.
- `CatchUpIsExact` covers executions since the loss was *noticed*; those between
  the loss and the heartbeat that notices it are not asked for.
- `WindowInsideLease` exempts a release that is processed after the grant; that
  case is `MCLiveGateway_release.cfg`.
- `FailsToALoss` does not say that an order is placed inside its lease, which the code
  does not give either: it says that an execution whose link nobody harmed since it
  began does not fail, however old a break it inherited.
- `StopRatchets` allows a stop to fall, though never below its proposal's, by a tick
  that another daemon raced: the crons of both fire at the same minute over the
  trades of both modes, and each compares with the stop it read before it awaited the
  bars. `OneCardOpen` is one card of each reviewing daemon, for the same reason. In
  `sweeps_safety` one daemon sweeps, reviews and polls, so that there the stop never
  falls; the theorems hold for any number.
- `BreachIsClosed` and `GrantIsHonoured` except a broker that refuses.
- `WriterMovesOn` is "the lock comes back", not "soon": see
  `MCBriefRefresh_lock.cfg`.
- A per-trade cap that rejects hides a daily loss that would have tripped the
  switch, since the first protection that rejects answers for all
  (`BreachTripsSwitch` speaks of recorded regime rejections); a capital of zero
  or less makes every loss percentage 0.

### 3.3 Bounds

| Bound | Value | Why it is enough |
|---|---|---|
| `MaxEvents` | 3, 2 | two copies of a key and one other key fill and overflow a window of 1 |
| `DedupWindow` | 1 | the smallest window that evicts |
| `MaxCommands` | 2 (3 for `halt`) | a human against a human, or against either sweep; a halt and a resume |
| `Requests` | an entry and an exit | a conflict on one card rolls back the other |
| `Modes` | paper and live, or one | proposals, ticks and sweeps of two processes race; one daemon is enough for the rest |
| `Proposals` | 2 | a duplicate needs two; a card, an order and a trade belong to one proposal |
| `MaxOpen` | 1 | one slot is contended by two proposals |
| `Trades` | 1 | no step but the book's netting and the ambiguity of a symbol relates two trades; the watchlist has one position per symbol (`daemon_lifecycle.py:383-386`) |
| `Lots` | 2 | an order is unfilled, partly filled or filled |
| `MaxAsks` | 2, 1 | a duplicate request queued behind the first |
| `MaxFlips` | 2, 1, 0 | on and off again |
| `FirstTick`, `DayLen`, `WeekLen`, `LastTick` | 13, 2, 7, 14 | one tick before midnight of the last day of a week, and one after |
| `MaxCloses`, `MaxSnapshots` | 1, 2 | a loss reaches a cap; a peak and a fall |
| `TTL`, `Refresh`, `Delay`, `Wait`, `LeaseMax`, `PingMax`, `SaveMax`, `OrderMax` | 10, 2, 1, 4, 1, 3, 1, 1 | the code's timeouts in ticks of 30 s, rounded up; `SaveMax` is the busy timeout of the database |
| `Accounts` | one (two in `MCRiskControl_modes.cfg`) | no property of `risk_safety` tells accounts apart, and with two the run takes 30 million states; what goes wrong with two is `DrawdownIsReal` |
| `MaxAttempts` | 3 | the retry loop of `MAX_RECONNECT_ATTEMPTS`, with a first, a middle and a last attempt |
| `Bars` | three days | a stop is trailed, a lower candidate follows, then it is hit; or it is hit at once |
| `MaxErrors` | 1 | the broker refuses once |
| `Jobs`, `Watch` | two daemons, a request; `<<s1, s2>>`, `<<s1>>`, `<<s1>>` | three writers of one symbol, and a batch that goes on to a second |
| `MaxRuns`, `MaxTime` | 1 | each job once: three versions; an order of creation |
| `MaxFaults` | 0, 1 or 3 | each fault ends one unit of work, one process or one connection |

The theorems of section 4 hold for every value, so for the properties proved
there the bounds only matter to the confidence in the formulas.

`entry_safety` fixes `MaxFlips = 0` and `entry_live` fixes `MaxFaults = 0` to stay
small; what needs both (the kill switch thrown while a daemon restarts) is
covered by the theorems, whose statements leave both open.
Symmetry is used on dedup keys and on proposals, only in runs without liveness.
`CHECK_DEADLOCK FALSE` appears where all cards are decided, all proposal ids and
runs used and the bounded commands, flips and faults spent: the system then really
has nothing left to do. The bus (a job can always start) and the ledger (so can a
reconciliation) never stop and are checked for deadlock.

### 3.4 Fairness

Weak fairness of what the program schedules by itself, and nothing else:

- every worker task goes on with its delivery; a handler's awaits are database
  calls with a busy timeout and broker calls under `wait_for`;
- the clock reaches `expires_at` and the end of the dedup window;
- APScheduler fires a job again and again with `max_instances = 1`, and a tick
  that started ends within its 180 seconds (`apscheduler_adapter.py:66-93`);
- a risk evaluation ends in one of its two answers, but which one is open;
- heartbeat, reconnect and release tasks run, the awaits of an execution end
  within the bound the code gives them, and time passes (`LiveGateway`);
- a brief job goes on: the sources and the model answer or time out, a statement
  waits 30 seconds at most (`BriefRefresh`).

Nothing is assumed of humans, of strategies, of the operator, of the gateway, of
the market or of faults, and no action is strongly fair. A worker that waits for
the write lock needs no strong fairness here: `execAt = "sent"` ends by the weak
fairness of `ExecCommit`, a sweep that holds the lock ends by its own, and a brief
job that finds the lock taken gives up.

## 4. Theorems

All are proved with TLAPS for every value of the constants, from the named
assumptions of the modules alone (which processes exist, that model values such
as `NoKey` are not data, that bounds are natural numbers) and, where the
table says so, from a hypothesis the theorem states.

| Theorem | States |
|---|---|
| `TypeCorrect` in each of the eight proof modules | `Spec => []TypeOK` |
| `MessageBusProofs!DedupWindowCorrect` | `WindowOK`: bounded and duplicate-free for every window size |
| `MessageBusProofs!NoUncommittedRead`, `DedupGuarantee` | `PublishAfterCommit`, `DedupWithinWindow` |
| `MessageBusProofs!Refinement` | `MessageBus` implements `BusContract` |
| `ApprovalProofs!OnlyGrantsAct` | `ActsOnlyOnGrants` |
| `ApprovalProofs!Refinement` | `Approval` implements `ApprovalContract` |
| `EntryPipelineProofs!OnceOnly`, `HaltBound` | `SentAtMostOnce`, `HaltStopsOrders` |
| `EntryPipelineProofs!OnlyVetted`, `CardsBounded` | `SentWasVetted`, `OneCardPerDaemon` |
| `EntryPipelineProofs!Refinement` | `EntryPipeline` implements `ApprovalContract` |
| `TradeLedgerProofs!LedgerIsReal`, `ExitsBounded` | `FillsAreExecutions` (the contract's guard; no run repeats it), `ExitsAreAccounted` |
| `TradeLedgerProofs!Refinement` | `TradeLedger` implements `LedgerContract` |
| `TradeLedgerProofs!DoubleSellBounded` | an account sells a trade once, once more for every exit lost track of, and once more where a bracket rests |
| `TradeLedgerProofs!ClosedIsSold` | `ClosedIsNotHeld` with one daemon and one trade of a symbol |
| `RiskControlProofs!AnnouncedOnlyOnce`, `HaltBound` | `AnnouncedOnce`, `HaltStopsEvaluations` |
| `RiskControlProofs!TripsOnce`, `TripsAlways` | `AutoOncePerDay`, `BreachTripsSwitch` |
| `RiskControlProofs!Refinement` | `RiskControl` implements `SwitchContract` |
| `LiveGatewayProofs!MonitorsExclude`, `HookOnce`, `CatchUp` | `OneMonitor`, `LossIsToldOnce`, `CatchUpIsExact` |
| `LiveGatewayProofs!WindowSafe`, `QuietRelease`, `OnlyHarmFails` | `WindowInsideLease`, `ReleasedWhenQuiet`, `FailsToALoss` |
| `StopSweepsProofs!SoldForCause` | `ExitHasCause` |
| `StopSweepsProofs!CleanIsProtected` | `reconcile_positions` is silent exactly when size, stop and target are in place |
| `StopSweepsProofs!RatchetHolds`, `CardsBounded` | `StopRatchets`, `OneCardOpen`, for any number of daemons |
| `BriefRefreshProofs!VersionsAreLinear`, `AnnouncementsAreCommitted` | `BriefsAreLinear`, `AnnouncedIsCommitted` |

The runs do not repeat the type invariants, which are all proved.

**What the violations need.** Three of the violations of section 3.1 have a theorem
that says what they take. With the hypothesis of the first two rows the property
holds for every value of the constants, so a repair need not look further; the last
row bounds the damage.

| Theorem | Property | Hypothesis |
|---|---|---|
| `ApprovalProofs!SplitNeedsRollback` | `NoSplitOutcome` | a sweep tick that meets a decided card has no other card in its batch |
| `RiskControlProofs!HaltNeedsSameBucket` | `HaltIsHonoured` | no resume commits in the 30-second bucket of an answered halt |
| `TradeLedgerProofs!DoubleSellBounded` | in place of `NoDoubleSell`: a double sell costs one position | none |

**The inductive invariants.**

- *Publish after commit.* `PublishAfterCommit` speaks of queues and deliveries,
  and a flush fills queues from an outbox. `FlushDurable` adds that the outbox of
  a context that is fanning out holds only durable events. Type correctness needs
  `HandOK`: a worker in the middle of a delivery holds its event.
- *The dedup window.* `DedupWithinWindow` compares two finished deliveries; its
  invariant speaks of one that is queued or running. `Remembers`: a key handled
  cleanly is still in the window, or `dedup_window` other keys were handled since
  (`Excused`), which stays so because what was handled only grows. A queued copy
  was let through by `publish`, which looked into the window, so it carries its
  excuse with it (`DedupOf`); `DistinctCount` turns the keys that pushed one out of
  the window into a cardinality.
- *The bus contract.* The contract has sets of events where the code has an outbox
  per context, so `Apart` says that an event is in one outbox and once in it, that an
  outbox is empty while its context is idle, and that no event in one is still to be
  numbered: then a commit moves exactly one outbox from `open` to `due`, and a flush
  that takes the head of one leaves it `due` nowhere else. `HandsFree`
  with `HandOK`: a worker holds an event exactly while it delivers one, so that what
  it takes or finishes is one event of the contract.
- *No split outcome.* `BusIsTrue` and `RejectsAreTrue`: what is on a bus or was told
  is the recorded decision. They are inductive only with `OutboxOK`, that a buffered
  timeout is of the open batch or committed; the step of the code that breaks it is
  the rollback that empties the batch and keeps the outbox.
- *Only grants act, and the contract.* One invariant serves both. `told` is fed
  by `bus` and `bus` by the tap's flush, so `BusOK` and `FlushOK` say that a grant
  on its way is durable and carries its card's action. `LockOK` says that
  uncommitted decisions are under the write lock, for undecided cards, so a commit
  overwrites nothing; `TodoOK` that a sweep works on expired cards and commits at
  least one, which makes `SweepCommit` a `Decide` step for a set of cards.
- *Once only.* `Once`: without a grant nothing is approved, executing or sent; an
  approved event exists only on the poller's bus and excludes an execution and a
  call; an execution past its check has made no call.
- *Halt bound (entries).* `Stopped`: an execution that has passed the check belongs
  to a daemon that has made no call since the switch was thrown.
- *Only vetted proposals.* `Vetting` follows the allow from the risk worker over
  the bus to the card, the decision and the order, with the mode of its
  configuration.
- *The flood guard.* Only a tick makes a proposal pending, and only those it
  inserted. What a tick read of another daemon's rows may be stale when it commits,
  so `BatchIsClear` and `SignalIsClear` speak of its own daemon's: while the tick is
  between its look at the table and its commit, none of them is of the configuration
  and pending in the window, because a daemon has one tick and nothing else adds to
  them.
- *The pipeline's contract.* A card may be asked for once, so what leads to it
  must exist once. `OneToken`: a proposal is in one tick's batch, or one of its
  events (created, allowed, request) is on one bus, or its card exists, never two
  of these (`BatchIsToken`, `EventIsToken`, `NoCardYet`); `GateHasConfig` keeps an
  inserted proposal from looking unused.
- *The ledger.* `Accounted` adds to the fills the executions a reconciliation has
  read and not handled, which is what makes the next `ReconFill` harmless; type
  correctness needs it too, for `found` is a difference. `Counted` allows one exit
  more than were lost while the daemon is closing the trade or once the trade has
  left `open`; that it never comes back needs `Unopened`.
- *The ledger's contract.* `Unopened` makes the commit of an entry the first row of
  its trade, `Listed` that an order is recorded only with a trade, so that a fill
  that is booked belongs to one; `Accounted` again gives the contract's guard that a
  lot is booked after it was executed. The start of a reconciliation, a lost answer
  and a crash are stutters of the contract.
- *The bound on double sells.* `Sellable`: an exit is executed as often as it was
  sent, of a bracket one leg, and only at the account whose bracket it is; `Counted`
  bounds what was sent by what was lost.
- *A closed trade is sold.* `Covered`: an exit was sent, or the whole entry is
  sold. A reconciliation keeps the book it has read while it works through the
  trades, so `FlatIsCovered` says it of the trades it found flat; `BrokerOK` that no
  more than the entry is ever held. `Executed` and `Position` are sums over sets,
  and a lemma for each gives the sum of one term and of the three exits
  (`SumOfOne`, `SumOfExits`) without induction, from the recursion's own equation.
- *The kill switch.* `Drafts` says what a unit of work may hold. A halt: a worker
  that accepted once since is back at the gate. Once a day: `FreshDay` says that a
  worker about to trip holds the lock since it found no activation of the day, so
  that every committed one is of an earlier day, and `Past` that no stamp lies in
  the future, since the day may change under the worker's feet; `Covered` that an
  evaluation which will record a breach trips the switch or was preceded. An
  answered halt: `KeyedIsOn`, while a chat holds the key of a halt of this bucket the
  switch is on, which a resume in the bucket is what breaks; `KeysPast`, no key is of
  a bucket to come. The contract of the switch follows from `Drafts`, `Past` and
  `FreshDay`: `Drafts` gives an event its
  source by its worker, `Past` puts its stamp between the start and now, `FreshDay`
  makes a daemon's commit the first trip of its day. `CacheFollowsCommits`: the cache
  row is the state of the last event of the log.
- *The link.* `Roles` separates the standing from the on-demand link, `Known` ties
  what was announced to the set of known executions. `Sound`: from the confirmed
  connection to the end of the order the client is alive, unless a fault, the
  shutdown, a release or the end of the lease came since the execution began.
  `Asking` follows a lease request: between the read of the clock and the answer
  there is no window and the lease has lost no more than the clock is old.
  `Debounced`: the release timer runs down no faster than the time since the last
  order.
- *The sweeps.* `Causes` adds the requests on their way. `Ratchet`: what a tick
  read is the stop in force, and its rows are no lower, unless the tick was raced;
  and no lower than the proposal's in any case. `Cards`: a trade that a daemon
  assesses, has alerted or requested has no open card of that daemon.
- *Briefs.* `Linear` is stated for the committed briefs and for what each job sees
  (`Lines`), and for the snapshots (`Snapshots`), which may be old. `Holder`: only
  the holder of the write lock has written anything, so that a commit is an
  extension of what is committed. `Candidates`: a version that waits to be inserted
  follows one its job can see, and the unique constraint makes it new. `Announced`
  says of an outbox what `AnnouncedIsCommitted` says of the bus, but of rows the
  job sees, unless its session is dead; `Places` that a flush comes after a commit.

Only model-checked: liveness (fairness and ENABLED are beyond the prover:
`CommittedIsDelivered`, `EveryCardIsDecided`, `GrantedIsActedOn`,
`PendingIsAnswered`, `OutageEnds`, `EveryOrderEnds`, `LeaseEnds`, `BreachIsClosed`,
`GrantIsHonoured`, `WriterMovesOn`) and the violations: every safety property of a
run is a theorem.

## 5. What the models leave out

- **Data.** Prices, quantities, messages and identifiers are model values or small
  integers. In `EntryPipeline` the caps of the risk engine are one
  nondeterministic answer each, except the open-positions cap; `RiskControl` has
  them all.
- **A tick's write lock across the entry gate.** After its first insert a propose
  tick holds the write lock while the gate is asked about the next configuration.
  The model lets others write in between: more behaviours, not fewer.
- **Time-outs of the lock** in the order path. The busy timeout of 30 s is about as
  long as a broker call. A write that has to wait may fail; it counts as a fault
  and is bounded. `BriefRefresh` models them.
- **The expiry gate.** A tap is refused once the card is expired. In
  `EntryPipeline` a tap may be recorded after the expiry, because `Approval` shows
  that one which passed the gate in time may be.
- **What an exit is worth.** Realised P&L and equity rows appear in `RiskControl`
  as inputs; in `TradeLedger` they decide nothing.
- **Several trades of one symbol** in the ledger: the orphan close nets by symbol,
  which the code accepts (`daemon_lifecycle.py:383-386`).
- **Torn reads of the risk state.** `load_risk_state` runs several SELECTs outside
  a transaction (`risk/repository.py:92`); the model reads them at once.
- **Overrides of the risk engine** (`record_override`): a single insert that no
  decision reads.
- **Rows lost with a rollback.** Cost rows share the brief's transaction and go
  with it; `BriefRefresh` keeps the transaction and not the amounts.
- **The API's manual close.** It publishes on the bus of the API process, where
  nobody closes trades.
- **Channel dispatch** sends before the card's row commits and retries per channel;
  a message that arrives too early finds no card and is answered so.
- **No caller in production:** `route_llm` and `check_budget`
  (`contexts/observability`) are called from tests only; there is no protocol to
  model yet.
- **Pure I/O and formulas:** sources and scrapers, scoring methodologies and
  strategies (numeric formulas over series, tested by example), replay, journals,
  scorecards, telemetry, the views of the API and of the command line, the web
  front end, migrations, deployment. They keep no state that two actors race for.
- **SQLite itself**, the broker, the gateway's sidecar, Hindsight and the chat
  services are outside the repository and modelled from how it uses them.

Two documents disagree with the code in ways no property states: NFR-R7 says that
the daemon halts trading when reconnecting fails, but the daemon builds its adapter
without a bus, so that `_emit_killswitch` logs and nobody sets the switch; and
NFR-O1 counts every model call, but a call's cost row is lost with the transaction
it is part of.

## 6. Plan

Done: the bus, the approval, the entry pipeline, the trade ledger, the risk engine
with the kill switch, the broker link with the on-demand gateway, the sweeps, the
brief refresh. What would add most next:

1. The composition of `StopSweeps` with `Approval`, through the exit cards both
   model.
2. Channel dispatch with its retries, and the proposal advisors once their answers
   decide more than an alert.

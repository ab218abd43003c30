---------------------------- MODULE EntryPipeline ----------------------------
(***************************************************************************)
(* The life of an entry (contexts/trading/service.py, contexts/risk,       *)
(* contexts/trading/daemon_lifecycle.py): a strategy tick proposes, the    *)
(* risk service evaluates, a card asks the human, the approved proposal is *)
(* executed -- against the kill switch, the per-mode trading toggle with   *)
(* its drain, and process crashes.                                         *)
(*                                                                         *)
(* There is one daemon per mode (paper, live), each with a bus of its own; *)
(* only the database is shared.  Every handler is a unit of work that      *)
(* publishes after its commit, so the fan-out is part of its step (module  *)
(* MessageBus shows what that rests on).  An execution holds the write     *)
(* lock of the database from the flush of its Trade to its commit, with    *)
(* the broker call in between.  A card is seen from outside: how channels  *)
(* and sweeps race for it is module Approval.  A human answers it through  *)
(* Telegram, whose taps reach the bus of a daemon, or through MCP, whose   *)
(* decisions no daemon hears of.                                           *)
(***************************************************************************)
EXTENDS Naturals, FiniteSets

CONSTANTS
    Modes,        \* one daemon for each
    Poller,       \* the daemon that receives the Telegram taps
    Leased,       \* the modes with an on-demand gateway (ephemeral live)
    Configs,      \* enabled strategy configurations
    ModeOf,       \* the "mode" parameter of a configuration
    SymbolOf,     \* the symbol of a configuration
    Proposals,    \* proposal ids
    None,         \* no proposal, no configuration
    MaxOpen,      \* RiskCaps.max_open_positions
    MaxFlips,     \* bound: operator actions on the switch and the toggles
    MaxFaults     \* bound: crashes and failed units of work

ASSUME PipelineAssumption ==
    /\ Poller \in Modes
    /\ Leased \subseteq Modes
    /\ ModeOf \in [Configs -> Modes]
    /\ None \notin Proposals \cup Configs
    /\ MaxOpen \in Nat
    /\ MaxFlips \in Nat
    /\ MaxFaults \in Nat

VARIABLES
    prop,       \* trade_proposals.state, "none" without a row
    config,     \* trade_proposals.strategy_config_id
    fresh,      \* the proposals younger than the dedup window
    row,        \* the approval card: absent, open or expired
    decision,   \* its decision
    trade,      \* trades.state of the proposal's trade
    order,      \* orders.state of its entry order
    active,     \* kill_switch_state.is_active
    enabled,    \* tenant_trading_modes.enabled
    toggled,    \* the toggle was moved after the daemon's watermark
    polling,    \* _poll_initialised
    tickAt,     \* where the propose tick of a daemon is
    tickTodo,   \* the configurations it has not reached
    tickConfig, \* the configuration the entry gate is asked about
    batch,      \* the proposals it has inserted and not committed
    bus,        \* events on a daemon's bus
    execAt,     \* where the execution worker of a daemon is
    execOf,     \* the proposal it executes
    outcome,    \* what the broker call of the execution ended in
    by,         \* history: the daemon that inserted a proposal of the window
    unheard,    \* history: the cards that were decided through MCP
    vetted,     \* history: the proposals the risk engine allowed
    refused,    \* history: the proposals whose execution was refused
    sent,       \* history: the place_order calls made for a proposal
    halted,     \* history: the calls a daemon made since the switch is active
    flips,
    faults

dbVars == <<prop, config, fresh, row, decision, trade, order>>
switchVars == <<active, enabled, toggled, polling, flips>>
tickVars == <<tickAt, tickTodo, tickConfig, batch>>
execVars == <<execAt, execOf, outcome>>
histVars == <<by, unheard, vetted, refused, sent, halted>>
vars == <<dbVars, switchVars, tickVars, bus, execVars, histVars, faults>>

Event == [what : {"created", "allowed", "denied", "request",
                  "approved", "rejected", "timedout"},
          of : Proposals]

E(what, p) == [what |-> what, of |-> p]

\* One handler consumes an event and publishes others.
Deliver(m, e, published) == bus' = [bus EXCEPT ![m] = (@ \ {e}) \cup published]

Live(p) == trade[p] \in {"open", "closing"}

\* _count_open_trades: both daemons' trades.
OpenCount == Cardinality({p \in Proposals : Live(p)})

\* An execution flushed its Trade and has not committed.
WriteLockFree == \A m \in Modes : execAt[m] # "sent"

Init ==
    /\ prop = [p \in Proposals |-> "none"]
    /\ config = [p \in Proposals |-> None]
    /\ fresh = {}
    /\ row = [p \in Proposals |-> "absent"]
    /\ decision = [p \in Proposals |-> "none"]
    /\ trade = [p \in Proposals |-> "none"]
    /\ order = [p \in Proposals |-> "none"]
    /\ active = FALSE
    /\ enabled = [m \in Modes |-> TRUE]
    /\ toggled = [m \in Modes |-> FALSE]
    /\ polling = [m \in Modes |-> FALSE]
    /\ tickAt = [m \in Modes |-> "idle"]
    /\ tickTodo = [m \in Modes |-> {}]
    /\ tickConfig = [m \in Modes |-> None]
    /\ batch = [m \in Modes |-> {}]
    /\ bus = [m \in Modes |-> {}]
    /\ execAt = [m \in Modes |-> "idle"]
    /\ execOf = [m \in Modes |-> None]
    /\ outcome = [m \in Modes |-> "none"]
    /\ by = [p \in Proposals |-> None]
    /\ unheard = {}
    /\ vetted = {}
    /\ refused = {}
    /\ sent = [p \in Proposals |-> 0]
    /\ halted = [m \in Modes |-> 0]
    /\ flips = 0
    /\ faults = 0

-----------------------------------------------------------------------------
(* The propose tick: every daemon runs it, over every configuration.       *)

TickStart(m) ==
    /\ tickAt[m] = "idle"
    /\ enabled[m]
    /\ \E p \in Proposals : config[p] = None
    /\ tickAt' = [tickAt EXCEPT ![m] = "loop"]
    /\ tickTodo' = [tickTodo EXCEPT ![m] = Configs]
    /\ UNCHANGED <<dbVars, switchVars, tickConfig, batch, bus, execVars, histVars, faults>>

HasOpenPosition(symbol) ==
    \E p \in Proposals : Live(p) /\ SymbolOf[config[p]] = symbol

\* Mutant: the flood guard never finds a pending proposal.
NeverRecentPending(m, c) == FALSE

\* has_recent_pending, as the tick's own session sees it.
HasRecentPending(m, c) ==
    \E p \in fresh \cup batch[m] :
        config[p] = c /\ (prop[p] = "pending" \/ p \in batch[m])

\* propose up to the entry gate: the strategy signals and both guards pass.
TickSignal(m, c) ==
    /\ tickAt[m] = "loop"
    /\ c \in tickTodo[m]
    /\ ~HasOpenPosition(SymbolOf[c])
    /\ ~HasRecentPending(m, c)
    /\ tickTodo' = [tickTodo EXCEPT ![m] = @ \ {c}]
    /\ tickConfig' = [tickConfig EXCEPT ![m] = c]
    /\ tickAt' = [tickAt EXCEPT ![m] = "gate"]
    /\ UNCHANGED <<dbVars, switchVars, batch, bus, execVars, histVars, faults>>

\* No signal, a guard holds, or the symbol failed: on to the next one.
TickSkip(m, c) ==
    /\ tickAt[m] = "loop"
    /\ c \in tickTodo[m]
    /\ tickTodo' = [tickTodo EXCEPT ![m] = @ \ {c}]
    /\ UNCHANGED <<dbVars, switchVars, tickAt, tickConfig, batch, bus, execVars,
                   histVars, faults>>

\* The entry gate answers: insert the proposal, buffer ProposalCreated.
TickInsert(m, p) ==
    /\ tickAt[m] = "gate"
    /\ config[p] = None
    /\ config' = [config EXCEPT ![p] = tickConfig[m]]
    /\ by' = [by EXCEPT ![p] = m]
    /\ batch' = [batch EXCEPT ![m] = @ \cup {p}]
    /\ tickConfig' = [tickConfig EXCEPT ![m] = None]
    /\ tickAt' = [tickAt EXCEPT ![m] = "loop"]
    /\ UNCHANGED <<prop, fresh, row, decision, trade, order, switchVars, tickTodo,
                   bus, execVars, unheard, vetted, refused, sent, halted, faults>>

\* The entry gate vetoes.
TickVeto(m) ==
    /\ tickAt[m] = "gate"
    /\ tickConfig' = [tickConfig EXCEPT ![m] = None]
    /\ tickAt' = [tickAt EXCEPT ![m] = "loop"]
    /\ UNCHANGED <<dbVars, switchVars, tickTodo, batch, bus, execVars, histVars, faults>>

\* The tick's unit of work commits and publishes what it buffered.
TickCommit(m) ==
    /\ tickAt[m] = "loop"
    /\ tickTodo[m] = {}
    /\ batch[m] = {} \/ WriteLockFree
    /\ prop' = [p \in Proposals |-> IF p \in batch[m] THEN "pending" ELSE prop[p]]
    /\ fresh' = fresh \cup batch[m]
    /\ bus' = [bus EXCEPT ![m] = @ \cup {E("created", p) : p \in batch[m]}]
    /\ batch' = [batch EXCEPT ![m] = {}]
    /\ tickAt' = [tickAt EXCEPT ![m] = "idle"]
    /\ UNCHANGED <<config, row, decision, trade, order, switchVars, tickTodo, tickConfig,
                   execVars, histVars, faults>>

\* The dedup window of a proposal runs out.
Age(p) ==
    /\ p \in fresh
    /\ fresh' = fresh \ {p}
    /\ by' = [by EXCEPT ![p] = None]
    /\ UNCHANGED <<prop, config, row, decision, trade, order, switchVars, tickVars, bus,
                   execVars, unheard, vetted, refused, sent, halted, faults>>

-----------------------------------------------------------------------------
(* Risk check and approval request.                                        *)

\* RiskService._proposal_created_handler: the kill-switch gate, then the caps
\* over the trades that are open now.
RiskAllow(m, p) ==
    /\ E("created", p) \in bus[m]
    /\ WriteLockFree
    /\ ~active
    /\ OpenCount < MaxOpen
    /\ vetted' = vetted \cup {p}
    /\ Deliver(m, E("created", p), {E("allowed", p)})
    /\ UNCHANGED <<dbVars, switchVars, tickVars, execVars, by, unheard, refused, sent, halted,
                   faults>>

\* The switch is active, or a cap that depends on the proposal alone or on
\* the open positions is breached (a clip counts as a denial).
RiskDeny(m, p) ==
    /\ E("created", p) \in bus[m]
    /\ active \/ WriteLockFree
    /\ Deliver(m, E("created", p), {E("denied", p)})
    /\ UNCHANGED <<dbVars, switchVars, tickVars, execVars, histVars, faults>>

\* A loss or drawdown cap is breached for the first time today: the same unit
\* of work activates the switch.
RiskBreach(m, p) ==
    /\ E("created", p) \in bus[m]
    /\ WriteLockFree
    /\ ~active
    /\ flips < MaxFlips
    /\ flips' = flips + 1
    /\ active' = TRUE
    /\ halted' = [n \in Modes |-> 0]
    /\ Deliver(m, E("created", p), {E("denied", p)})
    /\ UNCHANGED <<dbVars, enabled, toggled, polling, tickVars, execVars, by, unheard, vetted,
                   refused, sent, faults>>

\* Mutant: a proposal the risk engine refused is asked about all the same.
RiskCheckAsksAnyway(m, p) ==
    \E what \in {"allowed", "denied"} :
       /\ E(what, p) \in bus[m]
       /\ Deliver(m, E(what, p), {E("request", p)})
       /\ UNCHANGED <<dbVars, switchVars, tickVars, execVars, histVars, faults>>

\* TradingService.risk_check_handler.
RiskCheck(m, p) ==
    /\ \/ /\ E("allowed", p) \in bus[m]
          /\ Deliver(m, E("allowed", p), {E("request", p)})
       \/ /\ E("denied", p) \in bus[m]
          /\ Deliver(m, E("denied", p), {E("rejected", p)})
    /\ UNCHANGED <<dbVars, switchVars, tickVars, execVars, histVars, faults>>

\* ApprovalService._approval_requested_handler: insert and send the card.
Ask(m, p) ==
    /\ E("request", p) \in bus[m]
    /\ WriteLockFree
    /\ row' = [row EXCEPT ![p] = "open"]
    /\ Deliver(m, E("request", p), {})
    /\ UNCHANGED <<prop, config, fresh, decision, trade, order, switchVars, tickVars,
                   execVars, histVars, faults>>

\* The card's expires_at is reached; it was created after its proposal, so it
\* outlives the dedup window of the proposal.
ExpireCard(p) ==
    /\ row[p] = "open"
    /\ p \notin fresh
    /\ row' = [row EXCEPT ![p] = "expired"]
    /\ UNCHANGED <<prop, config, fresh, decision, trade, order, switchVars, tickVars, bus,
                   execVars, histVars, faults>>

\* Mutant: a second decision overwrites the first.
HumanDecidesAgain(p, out) ==
    /\ row[p] # "absent"
    /\ WriteLockFree
    /\ decision' = [decision EXCEPT ![p] = out]
    /\ bus' = [bus EXCEPT ![Poller] = @ \cup
                 {E(IF out = "granted" THEN "approved" ELSE "rejected", p)}]
    /\ UNCHANGED <<prop, config, fresh, row, trade, order, switchVars, tickVars, execVars,
                   histVars, faults>>

\* A tap on the card, through the bridge of the polling daemon.  A tap that
\* passed the expiry gate in time may be recorded just after it.
HumanDecides(p, out) ==
    /\ row[p] # "absent"
    /\ decision[p] = "none"
    /\ WriteLockFree
    /\ decision' = [decision EXCEPT ![p] = out]
    /\ bus' = [bus EXCEPT ![Poller] = @ \cup
                 {E(IF out = "granted" THEN "approved" ELSE "rejected", p)}]
    /\ UNCHANGED <<prop, config, fresh, row, trade, order, switchVars, tickVars, execVars,
                   histVars, faults>>

\* The same decision through MCP (_run_action): the API process commits it, and
\* nobody forwards it to a daemon.
HumanDecidesMcp(p, out) ==
    /\ row[p] # "absent"
    /\ decision[p] = "none"
    /\ WriteLockFree
    /\ decision' = [decision EXCEPT ![p] = out]
    /\ unheard' = unheard \cup {p}
    /\ UNCHANGED <<prop, config, fresh, row, trade, order, switchVars, tickVars, bus,
                   execVars, by, vetted, refused, sent, halted, faults>>

\* The timeout sweep of a daemon, through that daemon's bridge.
SweepDecides(m, p) ==
    /\ row[p] = "expired"
    /\ decision[p] = "none"
    /\ WriteLockFree
    /\ decision' = [decision EXCEPT ![p] = "timeout"]
    /\ bus' = [bus EXCEPT ![m] = @ \cup {E("timedout", p)}]
    /\ UNCHANGED <<prop, config, fresh, row, trade, order, switchVars, tickVars, execVars,
                   histVars, faults>>

\* A sweep tick that another card's decision made roll back publishes its
\* timeouts anyway (run approval_split); the card was or will be granted.
SweepPhantom(m, p) ==
    /\ row[p] = "expired"
    /\ faults < MaxFaults
    /\ faults' = faults + 1
    /\ bus' = [bus EXCEPT ![m] = @ \cup {E("timedout", p)}]
    /\ UNCHANGED <<dbVars, switchVars, tickVars, execVars, histVars>>

\* Mutant: the rejection is logged and the proposal's row is left alone.
RejectForgets(m, p) ==
    \E what \in {"rejected", "timedout"} :
       /\ E(what, p) \in bus[m]
       /\ WriteLockFree
       /\ Deliver(m, E(what, p), {})
       /\ UNCHANGED <<dbVars, switchVars, tickVars, execVars, histVars, faults>>

\* TradingService.proposal_rejected_handler: set_state, whatever the state is.
Reject(m, p) ==
    \E what \in {"rejected", "timedout"} :
       /\ E(what, p) \in bus[m]
       /\ WriteLockFree
       /\ prop' = [prop EXCEPT ![p] = IF what = "timedout" THEN "expired" ELSE "rejected"]
       /\ Deliver(m, E(what, p), {})
       /\ UNCHANGED <<config, fresh, row, decision, trade, order, switchVars, tickVars,
                      execVars, histVars, faults>>

-----------------------------------------------------------------------------
(* Execution: execute_on_approval_handler, one at a time in a daemon.      *)

\* Mutant: the authoritative kill-switch re-check is dropped.
ExecCheckUnguarded(m, p) ==
    /\ E("approved", p) \in bus[m]
    /\ execAt[m] = "idle"
    /\ order[p] = "none"
    /\ ModeOf[config[p]] = m
    /\ Deliver(m, E("approved", p), {})
    /\ execAt' = [execAt EXCEPT ![m] = "checked"]
    /\ execOf' = [execOf EXCEPT ![m] = p]
    /\ UNCHANGED <<dbVars, switchVars, tickVars, outcome, histVars, faults>>

\* No order yet, the switch is off, the mode is this daemon's, and at least
\* one whole share: go on to lease the gateway and place the order.
ExecCheck(m, p) ==
    /\ E("approved", p) \in bus[m]
    /\ execAt[m] = "idle"
    /\ order[p] = "none"
    /\ ~active
    /\ ModeOf[config[p]] = m
    /\ Deliver(m, E("approved", p), {})
    /\ execAt' = [execAt EXCEPT ![m] = "checked"]
    /\ execOf' = [execOf EXCEPT ![m] = p]
    /\ UNCHANGED <<dbVars, switchVars, tickVars, outcome, histVars, faults>>

\* A second approval is skipped; otherwise OrderRejected is published: the
\* notifier tells the operator, and nobody updates the proposal.
ExecRefuse(m, p) ==
    /\ E("approved", p) \in bus[m]
    /\ execAt[m] = "idle"
    /\ order[p] # "none" \/ active \/ ModeOf[config[p]] # m
    /\ Deliver(m, E("approved", p), {})
    /\ refused' = IF order[p] = "none" THEN refused \cup {p} ELSE refused
    /\ UNCHANGED <<dbVars, switchVars, tickVars, execVars, by, unheard, vetted, sent, halted,
                   faults>>

\* The quantity floors to less than one share.
ExecTooSmall(m, p) ==
    /\ E("approved", p) \in bus[m]
    /\ execAt[m] = "idle"
    /\ order[p] = "none"
    /\ ~active
    /\ ModeOf[config[p]] = m
    /\ Deliver(m, E("approved", p), {E("rejected", p)})
    /\ UNCHANGED <<dbVars, switchVars, tickVars, execVars, histVars, faults>>

\* The on-demand gateway does not come up in time.
ExecNoGateway(m) ==
    /\ execAt[m] = "checked"
    /\ m \in Leased
    /\ refused' = refused \cup {execOf[m]}
    /\ execAt' = [execAt EXCEPT ![m] = "idle"]
    /\ execOf' = [execOf EXCEPT ![m] = None]
    /\ UNCHANGED <<dbVars, switchVars, tickVars, bus, outcome, by, unheard, vetted, sent, halted,
                   faults>>

\* Flush the state change and the Trade, then call the broker.
ExecPlace(m, out) ==
    /\ execAt[m] = "checked"
    /\ WriteLockFree
    /\ execAt' = [execAt EXCEPT ![m] = "sent"]
    /\ outcome' = [outcome EXCEPT ![m] = out]
    /\ sent' = [sent EXCEPT ![execOf[m]] = @ + 1]
    /\ halted' = IF active THEN [halted EXCEPT ![m] = @ + 1] ELSE halted
    /\ UNCHANGED <<dbVars, switchVars, tickVars, bus, execOf, by, unheard, vetted, refused,
                   faults>>

\* The unit of work commits: proposal, trade and order.  The trade is open
\* whatever the broker answered.
ExecCommit(m) ==
    /\ execAt[m] = "sent"
    /\ prop' = [prop EXCEPT ![execOf[m]] = "approved"]
    /\ trade' = [trade EXCEPT ![execOf[m]] = "open"]
    /\ order' = [order EXCEPT ![execOf[m]] = outcome[m]]
    /\ execAt' = [execAt EXCEPT ![m] = "idle"]
    /\ execOf' = [execOf EXCEPT ![m] = None]
    /\ outcome' = [outcome EXCEPT ![m] = "none"]
    /\ UNCHANGED <<config, fresh, row, decision, switchVars, tickVars, bus, histVars, faults>>

\* Mutant: the worker puts the event of a failed execution back on its queue.
ExecFailsRequeue(m) ==
    /\ execAt[m] = "sent" \/ (execAt[m] = "checked" /\ ~WriteLockFree)
    /\ faults < MaxFaults
    /\ faults' = faults + 1
    /\ bus' = [bus EXCEPT ![m] = @ \cup {E("approved", execOf[m])}]
    /\ execAt' = [execAt EXCEPT ![m] = "idle"]
    /\ execOf' = [execOf EXCEPT ![m] = None]
    /\ outcome' = [outcome EXCEPT ![m] = "none"]
    /\ UNCHANGED <<dbVars, switchVars, tickVars, histVars>>

\* The flush waits too long for the lock, or the commit raises: rollback, and
\* the event is gone.
ExecFails(m) ==
    /\ execAt[m] = "sent" \/ (execAt[m] = "checked" /\ ~WriteLockFree)
    /\ faults < MaxFaults
    /\ faults' = faults + 1
    /\ execAt' = [execAt EXCEPT ![m] = "idle"]
    /\ execOf' = [execOf EXCEPT ![m] = None]
    /\ outcome' = [outcome EXCEPT ![m] = "none"]
    /\ UNCHANGED <<dbVars, switchVars, tickVars, bus, histVars>>

-----------------------------------------------------------------------------
(* The operator, the other contexts, and faults.                           *)

\* activate_kill_switch from any surface; it commits at once.
Halt ==
    /\ ~active
    /\ WriteLockFree
    /\ flips < MaxFlips
    /\ flips' = flips + 1
    /\ active' = TRUE
    /\ halted' = [m \in Modes |-> 0]
    /\ UNCHANGED <<dbVars, enabled, toggled, polling, tickVars, bus, execVars, by, unheard,
                   vetted, refused, sent, faults>>

Resume ==
    /\ active
    /\ WriteLockFree
    /\ active' = FALSE
    /\ UNCHANGED <<dbVars, enabled, toggled, polling, flips, tickVars, bus, execVars,
                   histVars, faults>>

\* set_trading_enabled: the API process flips the toggle and stamps it.
Toggle(m) ==
    /\ WriteLockFree
    /\ flips < MaxFlips
    /\ flips' = flips + 1
    /\ enabled' = [enabled EXCEPT ![m] = ~@]
    /\ toggled' = [toggled EXCEPT ![m] = polling[m]]
    /\ UNCHANGED <<dbVars, active, polling, tickVars, bus, execVars, histVars, faults>>

\* poll_for_state_changes: take the watermark the first time; afterwards
\* drain the pending proposals of this mode when trading was switched off.
Drained(m) ==
    {p \in Proposals : prop[p] = "pending" /\ ModeOf[config[p]] = m}

Poll(m) ==
    /\ ~polling[m] \/ toggled[m]
    /\ WriteLockFree
    /\ polling' = [polling EXCEPT ![m] = TRUE]
    /\ toggled' = [toggled EXCEPT ![m] = FALSE]
    /\ prop' = [p \in Proposals |->
                  IF polling[m] /\ ~enabled[m] /\ p \in Drained(m)
                  THEN "rejected" ELSE prop[p]]
    /\ UNCHANGED <<config, fresh, row, decision, trade, order, active, enabled, flips,
                   tickVars, bus, execVars, histVars, faults>>

\* The exit side closes a trade.
CloseTrade(p) ==
    /\ trade[p] = "open"
    /\ WriteLockFree
    /\ trade' = [trade EXCEPT ![p] = "closed"]
    /\ UNCHANGED <<prop, config, fresh, row, decision, order, switchVars, tickVars, bus,
                   execVars, histVars, faults>>

\* A handler raises (the lock, the database, a missing row): rollback, and
\* the event is gone.
HandlerFails(m, e) ==
    /\ e \in bus[m]
    /\ faults < MaxFaults
    /\ faults' = faults + 1
    /\ Deliver(m, e, {})
    /\ UNCHANGED <<dbVars, switchVars, tickVars, execVars, histVars>>

TickFails(m) ==
    /\ tickAt[m] # "idle"
    /\ faults < MaxFaults
    /\ faults' = faults + 1
    /\ tickAt' = [tickAt EXCEPT ![m] = "idle"]
    /\ tickTodo' = [tickTodo EXCEPT ![m] = {}]
    /\ tickConfig' = [tickConfig EXCEPT ![m] = None]
    /\ batch' = [batch EXCEPT ![m] = {}]
    /\ UNCHANGED <<dbVars, switchVars, bus, execVars, histVars>>

\* The daemon dies and starts again: its queues, its tick, its execution and
\* its watermark are gone, the database and the broker are not.
Crash(m) ==
    /\ faults < MaxFaults
    /\ faults' = faults + 1
    /\ bus' = [bus EXCEPT ![m] = {}]
    /\ tickAt' = [tickAt EXCEPT ![m] = "idle"]
    /\ tickTodo' = [tickTodo EXCEPT ![m] = {}]
    /\ tickConfig' = [tickConfig EXCEPT ![m] = None]
    /\ batch' = [batch EXCEPT ![m] = {}]
    /\ execAt' = [execAt EXCEPT ![m] = "idle"]
    /\ execOf' = [execOf EXCEPT ![m] = None]
    /\ outcome' = [outcome EXCEPT ![m] = "none"]
    /\ polling' = [polling EXCEPT ![m] = FALSE]
    /\ toggled' = [toggled EXCEPT ![m] = FALSE]
    /\ UNCHANGED <<dbVars, active, enabled, flips, histVars>>

Outcomes == {"submitted", "timeout_pending", "rejected"}

Next ==
    \/ \E m \in Modes : \/ TickStart(m) \/ TickVeto(m) \/ TickCommit(m) \/ TickFails(m)
                        \/ \E c \in Configs : TickSignal(m, c) \/ TickSkip(m, c)
                        \/ \E p \in Proposals : TickInsert(m, p)
    \/ \E m \in Modes, p \in Proposals :
          \/ RiskAllow(m, p) \/ RiskDeny(m, p) \/ RiskBreach(m, p) \/ RiskCheck(m, p)
          \/ Ask(m, p) \/ SweepDecides(m, p) \/ SweepPhantom(m, p) \/ Reject(m, p)
          \/ ExecCheck(m, p) \/ ExecRefuse(m, p) \/ ExecTooSmall(m, p)
    \/ \E m \in Modes : \/ ExecNoGateway(m) \/ ExecCommit(m) \/ ExecFails(m)
                        \/ \E out \in Outcomes : ExecPlace(m, out)
                        \/ Toggle(m) \/ Poll(m) \/ Crash(m)
    \/ \E m \in Modes : \E e \in bus[m] : HandlerFails(m, e)
    \/ \E p \in Proposals : \/ Age(p) \/ ExpireCard(p) \/ CloseTrade(p)
                            \/ \E out \in {"granted", "rejected"} :
                                  HumanDecides(p, out) \/ HumanDecidesMcp(p, out)
    \/ Halt
    \/ Resume

Spec == Init /\ [][Next]_vars

\* Every worker goes on, the clock advances and the sweep cron fires; nothing
\* is assumed of the strategies, the human, the operator or the gateway.
Fairness ==
    /\ \A m \in Modes, p \in Proposals :
          /\ WF_vars(RiskAllow(m, p) \/ RiskDeny(m, p)) /\ WF_vars(RiskCheck(m, p))
          /\ WF_vars(Ask(m, p)) /\ WF_vars(Reject(m, p)) /\ WF_vars(SweepDecides(m, p))
          /\ WF_vars(ExecCheck(m, p) \/ ExecRefuse(m, p))
    /\ \A m \in Modes : /\ WF_vars(ExecCommit(m))
                        /\ WF_vars(\E out \in Outcomes : ExecPlace(m, out))
    /\ \A p \in Proposals : WF_vars(Age(p)) /\ WF_vars(ExpireCard(p))

FairSpec == Spec /\ Fairness

-----------------------------------------------------------------------------
(* Properties.                                                             *)

\* Type invariant.
TypeOK ==
    /\ prop \in [Proposals -> {"none", "pending", "approved", "rejected", "expired"}]
    /\ config \in [Proposals -> Configs \cup {None}]
    /\ fresh \subseteq Proposals
    /\ row \in [Proposals -> {"absent", "open", "expired"}]
    /\ decision \in [Proposals -> {"none", "granted", "rejected", "timeout"}]
    /\ trade \in [Proposals -> {"none", "open", "closed"}]
    /\ order \in [Proposals -> Outcomes \cup {"none"}]
    /\ active \in BOOLEAN
    /\ enabled \in [Modes -> BOOLEAN]
    /\ toggled \in [Modes -> BOOLEAN]
    /\ polling \in [Modes -> BOOLEAN]
    /\ tickAt \in [Modes -> {"idle", "loop", "gate"}]
    /\ tickTodo \in [Modes -> SUBSET Configs]
    /\ tickConfig \in [Modes -> Configs \cup {None}]
    /\ batch \in [Modes -> SUBSET Proposals]
    /\ bus \in [Modes -> SUBSET Event]
    /\ execAt \in [Modes -> {"idle", "checked", "sent"}]
    /\ execOf \in [Modes -> Proposals \cup {None}]
    /\ \A m \in Modes : execAt[m] # "idle" => execOf[m] \in Proposals
    /\ outcome \in [Modes -> Outcomes \cup {"none"}]
    /\ \A m \in Modes : execAt[m] = "sent" => outcome[m] \in Outcomes
    /\ by \in [Proposals -> Modes \cup {None}]
    /\ unheard \subseteq Proposals
    /\ vetted \subseteq Proposals
    /\ refused \subseteq Proposals
    /\ sent \in [Proposals -> Nat]
    /\ halted \in [Modes -> Nat]
    /\ flips \in Nat
    /\ faults \in Nat

\* An approved entry goes to the broker at most once (the idempotency checks
\* of execute_on_approval_handler), whatever fails, crashes or is delivered
\* out of turn.
SentAtMostOnce == \A p \in Proposals : sent[p] <= 1

\* FR24 and the human gate: an order goes to the broker only for a proposal
\* the risk engine allowed, on a card a human granted, from the daemon of the
\* proposal's own mode.
SentWasVetted ==
    \A p \in Proposals :
        sent[p] > 0 => /\ p \in vetted
                       /\ decision[p] = "granted"
                       /\ ModeOf[config[p]] = Poller

\* What the kill switch guarantees once it is active (the re-check of slice
\* #5, FR30): each daemon sends at most the one order whose execution had
\* passed the check when the switch was thrown.
HaltStopsOrders == active => \A m \in Modes : halted[m] <= 1

\* What the flood guard of propose gives although the daemons tick over the
\* same configurations, each with a snapshot of its own: a configuration has at
\* most one proposal of each daemon pending inside the window.
OneCardPerDaemon ==
    \A p, q \in fresh :
        /\ prop[p] = "pending" /\ prop[q] = "pending"
        /\ config[p] = config[q] /\ by[p] = by[q]
        => p = q

\* What the flood guard is for: "the operator's Telegram isn't flooded".  Two
\* ticks that overlap both pass it (run entry_dup).
FloodGuard ==
    \A p, q \in fresh :
        prop[p] = "pending" /\ prop[q] = "pending" /\ config[p] = config[q] => p = q

\* Approval and execution together implement the approval contract: at most
\* one decision per card, and orders only for granted cards.
actedOn == {p \in Proposals : sent[p] > 0}
Contract == INSTANCE ApprovalContract WITH Requests <- Proposals
ImplementsContract == Contract!Spec

\* No proposal is forgotten while no handler fails: a pending one is rejected,
\* expired or executed.  Two ways out are exempt, each by name: an execution
\* that was refused leaves the proposal as it is and only tells the operator,
\* and of a decision taken through MCP no daemon ever hears.
PendingIsAnswered ==
    \A p \in Proposals : prop[p] = "pending" ~>
        (prop[p] # "pending" \/ p \in refused \/ p \in unheard)

\* prd.md FR22: "System enforces maximum open positions limit".
OpenWithinCap == OpenCount <= MaxOpen

\* The drain of a mode that is switched off: "we only refuse to create new
\* ones" (orders).  A proposal it rejected is never executed.
DrainedStaysRejected ==
    [][\A p \in Proposals : prop[p] = "rejected" => sent'[p] = sent[p]]_vars

===============================================================================

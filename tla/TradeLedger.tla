----------------------------- MODULE TradeLedger -----------------------------
(***************************************************************************)
(* Trades, orders and fills against a broker that may execute what the     *)
(* program believes timed out (contexts/trading/service.py and             *)
(* daemon_lifecycle.py, contexts/risk/stop_hit_sweep.py, the IBKR adapter).*)
(*                                                                         *)
(* The ledger is the database both daemons share; every daemon has a       *)
(* broker account of its own.  Exits are asked for by the stop-hit sweep   *)
(* of a daemon without native brackets and, through exit cards, by the     *)
(* daemon that polls Telegram.  Fills reach the ledger only when a daemon  *)
(* reconciles: at boot, or when the operator asks for it.                  *)
(*                                                                         *)
(* Positions are long; an order is executed in Lots equal parts.  That an  *)
(* entry is placed at most once is shown by module EntryPipeline.          *)
(***************************************************************************)
EXTENDS Integers, FiniteSets, Functions

CONSTANTS
    Trades,       \* trade ids
    Modes,        \* one daemon and one broker account for each
    ModeOf,       \* trades.mode
    SymbolOf,     \* trades.symbol
    Sweeping,     \* the daemons without native brackets: stop-hit sweep
    Poller,       \* the daemon that bridges exit cards
    None,         \* no trade
    Lots,         \* parts an order may be executed in
    MaxAsks,      \* bound: close requests of a trade queued in a daemon
    MaxFaults     \* bound: crashes, failed commits, failed reconciliations

ASSUME LedgerAssumption ==
    /\ ModeOf \in [Trades -> Modes]
    /\ Sweeping \subseteq Modes
    /\ Poller \in Modes
    /\ None \notin Trades
    /\ Lots \in Nat \ {0}
    /\ MaxAsks \in Nat
    /\ MaxFaults \in Nat

Legs == {"stop", "target"}
Exits == Legs \cup {"exit"}
Roles == Exits \cup {"entry"}

\* One x for every order, or for every trade, of an account.
PerOrder(x) == [t \in Trades |-> [r \in Roles |-> x]]
PerTrade(x) == [t \in Trades |-> x]

VARIABLES
    trade,      \* trades.state, "none" without a row
    rows,       \* the roles a trade has an orders row for
    fills,      \* the fills rows: lots recorded from an account
    sent,       \* external: orders an account has accepted
    done,       \* external: lots an account has executed
    entering,   \* an execution's broker answer, until it is "over"
    asked,      \* CloseTradeRequested events queued in a daemon
    keyed,      \* the close worker's dedup window (keys are trade ids)
    cached,     \* the adapter's _client_order_cache, for exits
    closing,    \* the trade the close worker is closing
    recon,      \* where a daemon's reconciliation is
    found,      \* the lots its executions request returned, not yet handled
    flat,       \* its trades whose symbol the account holds none of
    behind,     \* the trades with executions older than the next window
    lost,       \* history: exits a daemon placed without recording them
    faults

ledgerVars == <<trade, rows, fills>>
brokerVars == <<sent, done>>
closeVars == <<asked, keyed, cached, closing, lost>>
reconVars == <<recon, found, flat, behind>>
vars == <<ledgerVars, brokerVars, entering, closeVars, reconVars, faults>>

Live(t) == trade[t] \in {"open", "closing"}

Answers == {"submitted", "timeout_pending", "rejected"}

\* An execution holds the write lock from the flush of its Trade to its end.
WriteLockFree == \A t \in Trades : entering[t] \notin Answers

Executed(m, t, R) == SumFunctionOnSet(done[m][t], R)

\* What an account holds for a trade, negative when it was oversold.
Held(m, t) == done[m][t]["entry"] - Executed(m, t, Exits)

Position(m, symbol) ==
    SumFunctionOnSet([t \in Trades |-> Held(m, t)], {t \in Trades : SymbolOf[t] = symbol})

Init ==
    /\ trade = [t \in Trades |-> "none"]
    /\ rows = [t \in Trades |-> {}]
    /\ fills = [m \in Modes |-> PerOrder(0)]
    /\ sent = [m \in Modes |-> PerOrder(0)]
    /\ done = [m \in Modes |-> PerOrder(0)]
    /\ entering = [t \in Trades |-> "new"]
    /\ asked = [m \in Modes |-> PerTrade(0)]
    /\ keyed = [m \in Modes |-> {}]
    /\ cached = [m \in Modes |-> {}]
    /\ closing = [m \in Modes |-> None]
    /\ lost = [m \in Modes |-> PerTrade(0)]
    /\ recon = [m \in Modes |-> "idle"]
    /\ found = [m \in Modes |-> PerOrder(0)]
    /\ flat = [m \in Modes |-> {}]
    /\ behind = [m \in Modes |-> {}]
    /\ faults = 0

-----------------------------------------------------------------------------
(* Entries: execute_on_approval_handler from the broker call on.           *)

\* place_order under its timeout.  An order that timed out may live.
Enter(t, reply) ==
    /\ entering[t] = "new"
    /\ WriteLockFree
    /\ entering' = [entering EXCEPT ![t] = reply]
    /\ \/ /\ reply # "rejected"
          /\ sent' = [sent EXCEPT ![ModeOf[t]][t]["entry"] = 1]
       \/ /\ reply # "submitted"
          /\ UNCHANGED sent
    /\ UNCHANGED <<ledgerVars, done, closeVars, reconVars, faults>>

\* The rows an entry leaves: protective legs only when the broker answered.
EntryRows(t) ==
    IF entering[t] = "submitted" /\ ModeOf[t] \notin Sweeping
    THEN {"entry"} \cup Legs ELSE {"entry"}

EnterCommit(t) ==
    /\ entering[t] \in Answers
    /\ entering' = [entering EXCEPT ![t] = "over"]
    /\ trade' = [trade EXCEPT ![t] = "open"]
    /\ rows' = [rows EXCEPT ![t] = EntryRows(t)]
    /\ UNCHANGED <<fills, brokerVars, closeVars, reconVars, faults>>

\* The commit raises: trade and order roll back, the broker does not.
EnterFails(t) ==
    /\ entering[t] \in Answers
    /\ faults < MaxFaults
    /\ faults' = faults + 1
    /\ entering' = [entering EXCEPT ![t] = "over"]
    /\ UNCHANGED <<ledgerVars, brokerVars, closeVars, reconVars>>

-----------------------------------------------------------------------------
(* Exits: CloseTradeRequested, close_trade_handler and close_trade.        *)

\* The stop-hit sweep finds a level of an open trade hit, or a granted exit
\* card, however old, is bridged.  Neither looks at the mode of the trade.
Wanted(m, t) ==
    IF m = Poller THEN trade[t] # "none" ELSE m \in Sweeping /\ trade[t] = "open"

AskExit(m, t) ==
    /\ Wanted(m, t)
    /\ t \notin keyed[m]
    /\ asked[m][t] < MaxAsks
    /\ asked' = [asked EXCEPT ![m][t] = @ + 1]
    /\ UNCHANGED <<ledgerVars, brokerVars, entering, keyed, cached, closing, lost,
                   reconVars, faults>>

\* Mutant: the gate on the state of the trade is dropped.
ExitAnyState(m, t) ==
    /\ closing[m] = None
    /\ asked[m][t] > 0
    /\ asked' = [asked EXCEPT ![m][t] = @ - 1]
    /\ closing' = [closing EXCEPT ![m] = t]
    /\ sent' = [sent EXCEPT ![m][t]["exit"] = @ + 1]
    /\ UNCHANGED <<ledgerVars, done, entering, keyed, cached, lost, reconVars, faults>>

\* close_trade up to the broker's answer.  The adapter replays the answer of
\* an exit it has already placed since the process started.
Exit(m, t) ==
    /\ closing[m] = None
    /\ asked[m][t] > 0
    /\ trade[t] = "open"
    /\ asked' = [asked EXCEPT ![m][t] = @ - 1]
    /\ closing' = [closing EXCEPT ![m] = t]
    /\ sent' = IF t \in cached[m] THEN sent ELSE [sent EXCEPT ![m][t]["exit"] = @ + 1]
    /\ UNCHANGED <<ledgerVars, done, entering, keyed, cached, lost, reconVars, faults>>

\* The trade is not open, or the broker refuses: the handler logs and
\* returns, and the bus records the key.
ExitRefused(m, t) ==
    /\ closing[m] = None
    /\ asked[m][t] > 0
    /\ trade[t] = "open" => t \notin cached[m]
    /\ asked' = [asked EXCEPT ![m][t] = @ - 1]
    /\ keyed' = [keyed EXCEPT ![m] = @ \cup {t}]
    /\ UNCHANGED <<ledgerVars, brokerVars, entering, cached, closing, lost, reconVars,
                   faults>>

\* The broker's answer is late: no orders row, the trade stays open, and the
\* handler swallows the TimeoutError, so the key is recorded.
ExitTimesOut(m) ==
    /\ closing[m] # None
    /\ closing[m] \notin cached[m]
    /\ closing' = [closing EXCEPT ![m] = None]
    /\ keyed' = [keyed EXCEPT ![m] = @ \cup {closing[m]}]
    /\ lost' = [lost EXCEPT ![m][closing[m]] = @ + 1]
    /\ UNCHANGED <<ledgerVars, brokerVars, entering, asked, cached, reconVars, faults>>

\* The exit order is recorded and the trade is closing, whatever became of it
\* since close_trade read it.
ExitCommit(m) ==
    /\ closing[m] # None
    /\ WriteLockFree
    /\ "exit" \notin rows[closing[m]]
    /\ rows' = [rows EXCEPT ![closing[m]] = @ \cup {"exit"}]
    /\ trade' = [trade EXCEPT ![closing[m]] = "closing"]
    /\ keyed' = [keyed EXCEPT ![m] = @ \cup {closing[m]}]
    /\ cached' = [cached EXCEPT ![m] = @ \cup {closing[m]}]
    /\ closing' = [closing EXCEPT ![m] = None]
    /\ UNCHANGED <<fills, brokerVars, entering, asked, lost, reconVars, faults>>

\* The commit raises, always so when the other daemon has recorded an exit
\* under the same client_order_id: rollback, no key.
ExitFails(m) ==
    /\ closing[m] # None
    /\ faults < MaxFaults
    /\ faults' = faults + 1
    /\ cached' = [cached EXCEPT ![m] = @ \cup {closing[m]}]
    /\ closing' = [closing EXCEPT ![m] = None]
    /\ lost' = [lost EXCEPT ![m][closing[m]] = @ + 1]
    /\ UNCHANGED <<ledgerVars, brokerVars, entering, asked, keyed, reconVars>>

-----------------------------------------------------------------------------
(* The broker (external): working orders are executed in any order; the    *)
(* legs of a bracket wait for their parent and cancel one another.         *)

Working(m, t, r) ==
    IF r \in Legs
    THEN /\ m = ModeOf[t] /\ m \notin Sweeping
         /\ done[m][t]["entry"] = Lots
         /\ done[m][t][r] < Lots
         /\ \A other \in Legs \ {r} : done[m][t][other] = 0
    ELSE done[m][t][r] < Lots * sent[m][t][r]

Execute(m, t, r) ==
    /\ Working(m, t, r)
    /\ done' = [done EXCEPT ![m][t][r] = @ + 1]
    /\ UNCHANGED <<ledgerVars, sent, entering, closeVars, reconVars, faults>>

-----------------------------------------------------------------------------
(* reconcile_with_ibkr: fills first, then positions.                       *)

\* Mutant: executions that are recorded already are not skipped.
FoundAgain(m, t, r) == done[m][t][r]

\* What reqExecutions returns and broker_fill_id does not skip.
New(m, t, r) == done[m][t][r] - fills[m][t][r]

\* The window starts ten minutes before the newest fill of the ledger, so
\* executions that were passed over before may be missing.
ReconStart(m, missing) ==
    /\ recon[m] = "idle"
    /\ missing \subseteq behind[m]
    /\ recon' = [recon EXCEPT ![m] = "fills"]
    /\ found' = [found EXCEPT ![m] =
                   [t \in Trades |-> [r \in Roles |->
                      IF t \in missing THEN 0 ELSE New(m, t, r)]]]
    /\ UNCHANGED <<ledgerVars, brokerVars, entering, closeVars, flat, behind, faults>>

\* sum_quantity_for_order, from whichever account.
Recorded(t, r) == SumFunction([m \in Modes |-> fills[m][t][r]])

\* _reconcile_one_fill, committed at once: the fill that completes an exit
\* order closes the trade.
ReconFill(m, t, r) ==
    /\ recon[m] = "fills"
    /\ found[m][t][r] > 0
    /\ r \in rows[t]
    /\ WriteLockFree
    /\ found' = [found EXCEPT ![m][t][r] = @ - 1]
    /\ fills' = [fills EXCEPT ![m][t][r] = @ + 1]
    /\ trade' = IF r \in Exits /\ Recorded(t, r) + 1 >= Lots
                THEN [trade EXCEPT ![t] = "closed"] ELSE trade
    /\ UNCHANGED <<rows, brokerVars, entering, closeVars, recon, flat, behind, faults>>

\* No order under the execution's reference: logged and passed over.
ReconMissing(m, t, r) ==
    /\ recon[m] = "fills"
    /\ found[m][t][r] > 0
    /\ r \notin rows[t]
    /\ found' = [found EXCEPT ![m][t][r] = 0]
    /\ behind' = [behind EXCEPT ![m] = @ \cup {t}]
    /\ UNCHANGED <<ledgerVars, brokerVars, entering, closeVars, recon, flat, faults>>

Unhandled(m) == {t \in Trades : \E r \in Roles : found[m][t][r] > 0}

Forget(m) ==
    /\ found' = [found EXCEPT ![m] = PerOrder(0)]
    /\ behind' = [behind EXCEPT ![m] = @ \cup Unhandled(m)]

\* The broker or the database fails: the reconciliation goes on to positions.
ReconFails(m) ==
    /\ recon[m] = "fills"
    /\ faults < MaxFaults
    /\ faults' = faults + 1
    /\ Forget(m)
    /\ UNCHANGED <<ledgerVars, brokerVars, entering, closeVars, recon, flat>>

\* list_positions: the account's book, read before the open trades.
ReconPositions(m) ==
    /\ recon[m] = "fills"
    /\ Unhandled(m) = {}
    /\ recon' = [recon EXCEPT ![m] = "positions"]
    /\ flat' = [flat EXCEPT ![m] =
                  {t \in Trades : ModeOf[t] = m /\ Position(m, SymbolOf[t]) = 0}]
    /\ UNCHANGED <<ledgerVars, brokerVars, entering, closeVars, found, behind, faults>>

HasFills(t) == \E m \in Modes, r \in Roles : fills[m][t][r] > 0

\* Mutant: a trade whose entry has not filled counts as an orphan.
UnfilledOrphan(m, t) == Live(t) /\ t \in flat[m]

\* A trade of this mode with a fill whose symbol the account does not hold.
Orphan(m, t) == Live(t) /\ t \in flat[m] /\ HasFills(t)

ReconEnd(m) ==
    /\ recon[m] = "positions"
    /\ WriteLockFree
    /\ recon' = [recon EXCEPT ![m] = "idle"]
    /\ flat' = [flat EXCEPT ![m] = {}]
    /\ trade' = [t \in Trades |-> IF Orphan(m, t) THEN "closed" ELSE trade[t]]
    /\ UNCHANGED <<rows, fills, brokerVars, entering, closeVars, found, behind, faults>>

-----------------------------------------------------------------------------
\* A daemon dies and starts again: its queue, its window, the adapter's cache
\* and what it was doing are gone.
Crash(m) ==
    /\ faults < MaxFaults
    /\ faults' = faults + 1
    /\ entering' = [t \in Trades |-> IF ModeOf[t] = m /\ entering[t] \in Answers
                                     THEN "over" ELSE entering[t]]
    /\ asked' = [asked EXCEPT ![m] = PerTrade(0)]
    /\ keyed' = [keyed EXCEPT ![m] = {}]
    /\ cached' = [cached EXCEPT ![m] = {}]
    /\ closing' = [closing EXCEPT ![m] = None]
    /\ lost' = IF closing[m] = None THEN lost
               ELSE [lost EXCEPT ![m][closing[m]] = @ + 1]
    /\ recon' = [recon EXCEPT ![m] = "idle"]
    /\ flat' = [flat EXCEPT ![m] = {}]
    /\ Forget(m)
    /\ UNCHANGED <<ledgerVars, brokerVars>>

Next ==
    \/ \E t \in Trades : \/ \E reply \in Answers : Enter(t, reply)
                         \/ EnterCommit(t) \/ EnterFails(t)
    \/ \E m \in Modes, t \in Trades :
          \/ AskExit(m, t) \/ Exit(m, t) \/ ExitRefused(m, t)
          \/ \E r \in Roles : \/ Execute(m, t, r)
                              \/ ReconFill(m, t, r) \/ ReconMissing(m, t, r)
    \/ \E m \in Modes : \/ ExitTimesOut(m) \/ ExitCommit(m) \/ ExitFails(m)
                        \/ \E missing \in SUBSET Trades : ReconStart(m, missing)
                        \/ ReconFails(m) \/ ReconPositions(m) \/ ReconEnd(m)
                        \/ Crash(m)

Spec == Init /\ [][Next]_vars

-----------------------------------------------------------------------------
(* Properties.                                                             *)

\* Type invariant.
TypeOK ==
    /\ trade \in [Trades -> {"none", "open", "closing", "closed"}]
    /\ rows \in [Trades -> SUBSET Roles]
    /\ fills \in [Modes -> [Trades -> [Roles -> Nat]]]
    /\ sent \in [Modes -> [Trades -> [Roles -> Nat]]]
    /\ done \in [Modes -> [Trades -> [Roles -> Nat]]]
    /\ entering \in [Trades -> Answers \cup {"new", "over"}]
    /\ asked \in [Modes -> [Trades -> Nat]]
    /\ keyed \in [Modes -> SUBSET Trades]
    /\ cached \in [Modes -> SUBSET Trades]
    /\ closing \in [Modes -> Trades \cup {None}]
    /\ lost \in [Modes -> [Trades -> Nat]]
    /\ recon \in [Modes -> {"idle", "fills", "positions"}]
    /\ found \in [Modes -> [Trades -> [Roles -> Nat]]]
    /\ flat \in [Modes -> SUBSET Trades]
    /\ behind \in [Modes -> SUBSET Trades]
    /\ faults \in Nat

\* The ledger claims no execution the broker did not make, and none twice,
\* whatever a reconciliation that failed half-way or a restart reads again.
FillsAreExecutions ==
    \A m \in Modes, t \in Trades, r \in Roles : fills[m][t][r] <= done[m][t][r]

\* "duplicate close requests are rejected to avoid double exits": a daemon
\* places a second exit for a trade only after losing track of an earlier one
\* (a late answer, a failed commit, a crash before the commit).
ExitsAreAccounted ==
    \A m \in Modes, t \in Trades : sent[m][t]["exit"] <= lost[m][t] + 1

\* "closed means the trade has already terminated" (TradeNotClosableError): the
\* account of a closed trade holds nothing of it, or an exit that sells it is
\* still working (its entry may have gone on filling after the book was read).
\* It fails with two daemons: see run ledger_mode.
ClosedIsNotHeld ==
    \A t \in Trades : trade[t] = "closed" =>
        \/ Held(ModeOf[t], t) <= 0
        \/ Working(ModeOf[t], t, "exit")

\* The native bracket and the exits of the program are mutually exclusive, to
\* prevent a double sell.  They are not: close_trade leaves the legs working.
NoDoubleSell ==
    \A t \in Trades :
        Executed(ModeOf[t], t, Legs) > 0 => done[ModeOf[t]][t]["exit"] = 0

\* What the ledger promises: every trade goes through module LedgerContract,
\* however the daemons' entries, exits and reconciliations interleave, fail
\* and start again (_reconcile_one_fill, close_trade, the orphan sweep).
Contract == INSTANCE LedgerContract
              WITH state <- trade, orders <- rows, booked <- fills,
                   executed <- done, Accounts <- Modes
ImplementsContract == Contract!Spec

===============================================================================

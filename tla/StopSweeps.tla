----------------------------- MODULE StopSweeps -----------------------------
(***************************************************************************)
(* The sweeps that protect open positions (contexts/risk):                 *)
(* TrailingStopSweepService ratchets the stop of a trade,                  *)
(* StopHitSweepService asks for its exit when a level is hit, and          *)
(* UrgentExitReviewSweepService asks a human; with the close worker of the *)
(* trading service and its dedup window.                                   *)
(*                                                                         *)
(* Each sweep of a daemon runs one tick at a time (max_instances = 1) in a *)
(* unit of work of its own: rows and events leave at its end.  Bars are    *)
(* daily and come from the database.  A write that has to wait for the     *)
(* database's lock is a step that is taken later.                          *)
(***************************************************************************)
EXTENDS StopManagement

CONSTANTS
    Trades, Modes,
    ModeOf,        \* trades.mode
    SideOf, Entry, ProposalStop, Target,    \* of a trade's proposal
    Sweeping,      \* daemons without native brackets
    Reviewing,     \* daemons with IGUANATRADER_URGENT_EXIT_ENABLED
    Poller,        \* the daemon that bridges exit cards
    None,
    Bars,          \* inputs: the bars each day may bring
    MaxAsks,       \* bounds
    MaxErrors,     \* exits the broker refuses or answers too late
    MaxFaults      \* crashes and failed units of work

ASSUME SweepAssumption ==
    /\ ModeOf \in [Trades -> Modes]
    /\ Sweeping \subseteq Modes /\ Reviewing \subseteq Modes
    /\ Poller \in Modes
    /\ None \notin Trades
    /\ SideOf \in [Trades -> Sides]
    /\ ProposalStop \in [Trades -> Int]
    /\ Bars \in Seq(Range(Bars))
    /\ {MaxAsks, MaxErrors, MaxFaults} \subseteq Nat

\* Prices are integers, and true ranges divide.
ASSUME PriceAssumption ==
    \A n \in 2..Len(Bars) : \A past \in [1..n -> UNION Range(Bars)] :
        Candidate(past) \in Int

VARIABLES
    bars,       \* daily bars after a trade's entry
    trade,      \* trades.state
    held,       \* external: the trades whose position is at the broker
    stop,       \* the newest trailing_stop_audit row, or the proposal's stop
    clock,      \* stamps taken so far
    trailTodo, trailing, trailFrom, batch,      \* a trailing sweep's tick,
                                            \* and the row it adds per trade
    raced,      \* history: the stops another daemon moved since a tick read them
    hitTodo, hitting, hitClose, hits,           \* a stop-hit sweep's tick
    review, evidence, assessing, alerts,        \* an urgent-exit tick
    requests,   \* ExitApprovalRequested events queued in a daemon
    pending,    \* undecided exit cards that have not expired, by the daemon
                \* that inserted them
    asked,      \* CloseTradeRequested events queued in a daemon
    keyed,      \* the dedup window of its close worker
    closing,    \* the trade the close worker is closing
    cause,      \* history: why exits were asked for
    granted,    \* history: the trades a human decided to sell in Telegram
    errors, faults

marketVars == <<bars, held>>
trailVars == <<trailTodo, trailing, trailFrom, batch, clock, raced>>
hitVars == <<hitTodo, hitting, hitClose, hits>>
reviewVars == <<review, evidence, assessing, alerts>>
cardVars == <<requests, pending, granted>>
closeVars == <<asked, keyed, closing>>
vars == <<marketVars, trade, stop, trailVars, hitVars, reviewVars, cardVars,
          closeVars, cause, errors, faults>>

\* No tick is running where a tick's worklist is Idle.
Idle == {None}
NoRow == [at |-> 0, level |-> 0]
Open == {t \in Trades : trade[t] = "open"}

Init ==
    /\ bars = [t \in Trades |-> <<>>]
    /\ trade = [t \in Trades |-> "open"] /\ held = Trades
    /\ stop = [t \in Trades |-> [at |-> 0, level |-> ProposalStop[t]]]
    /\ clock = 0
    /\ trailTodo = [m \in Modes |-> Idle]
    /\ trailing = [m \in Modes |-> None] /\ trailFrom = [m \in Modes |-> 0]
    /\ batch = [m \in Modes |-> [t \in Trades |-> NoRow]]
    /\ raced = [m \in Modes |-> {}]
    /\ hitTodo = [m \in Modes |-> Idle]
    /\ hitting = [m \in Modes |-> None] /\ hitClose = [m \in Modes |-> 0]
    /\ hits = [m \in Modes |-> {}]
    /\ review = [m \in Modes |-> Idle]
    /\ evidence = [m \in Modes |-> {}]
    /\ assessing = [m \in Modes |-> None]
    /\ alerts = [m \in Modes |-> {}]
    /\ requests = [m \in Modes |-> {}]
    /\ pending = [t \in Trades |-> [m \in Modes |-> 0]]
    /\ asked = [m \in Modes |-> [t \in Trades |-> 0]]
    /\ keyed = [m \in Modes |-> {}]
    /\ closing = [m \in Modes |-> None]
    /\ cause = [t \in Trades |-> {}]
    /\ granted = {}
    /\ errors = 0 /\ faults = 0

\* The close of the newest bar; before any, the trade's entry price.
Close(t) == IF bars[t] = <<>> THEN Entry[t] ELSE bars[t][Len(bars[t])].close

Hit(t, close) ==
    \/ IsStopHit(SideOf[t], close, stop[t].level)
    \/ Target[t] # 0 /\ IsTargetHit(SideOf[t], close, Target[t])

-----------------------------------------------------------------------------
(* The trailing sweep, every 15 minutes.                                   *)

TrailStart(m) ==
    /\ m \in Sweeping /\ trailTodo[m] = Idle
    /\ trailTodo' = [trailTodo EXCEPT ![m] = Open]
    /\ UNCHANGED <<marketVars, trade, stop, trailing, trailFrom, batch, clock,
                   raced, hitVars, reviewVars, cardVars, closeVars, cause,
                   errors, faults>>

\* A bug: the stop to beat is always the proposal's.
TrailReadProposal(m, t) ==
    /\ trailing[m] = None /\ t \in trailTodo[m] \ Idle
    /\ trailTodo' = [trailTodo EXCEPT ![m] = @ \ {t}]
    /\ trailing' = [trailing EXCEPT ![m] = t]
    /\ trailFrom' = [trailFrom EXCEPT ![m] = ProposalStop[t]]
    /\ raced' = [raced EXCEPT ![m] = @ \ {t}]
    /\ UNCHANGED <<marketVars, trade, stop, batch, clock, hitVars, reviewVars,
                   cardVars, closeVars, cause, errors, faults>>

\* _resolve_entry_and_stop, before the bars are awaited.
TrailRead(m, t) ==
    /\ trailing[m] = None /\ t \in trailTodo[m] \ Idle
    /\ trailTodo' = [trailTodo EXCEPT ![m] = @ \ {t}]
    /\ trailing' = [trailing EXCEPT ![m] = t]
    /\ trailFrom' = [trailFrom EXCEPT ![m] = stop[t].level]
    /\ raced' = [raced EXCEPT ![m] = @ \ {t}]
    /\ UNCHANGED <<marketVars, trade, stop, batch, clock, hitVars, reviewVars,
                   cardVars, closeVars, cause, errors, faults>>

\* The bars are there: compute, and stamp an audit row.
TrailOne(m) ==
    /\ trailing[m] # None
    /\ trailing' = [trailing EXCEPT ![m] = None]
    /\ LET t == trailing[m] IN
       IF Trailed(SideOf[t], Entry[t], trailFrom[m], bars[t])
       THEN /\ clock' = clock + 1
            /\ batch' = [batch EXCEPT ![m][t] =
                           [at |-> clock + 1, level |-> Candidate(bars[t])]]
       ELSE UNCHANGED <<clock, batch>>
    /\ trailFrom' = [trailFrom EXCEPT ![m] = 0]
    /\ UNCHANGED <<marketVars, trade, stop, trailTodo, raced, hitVars,
                   reviewVars, cardVars, closeVars, cause, errors, faults>>

\* get_latest_for_trade: the row with the newest stamp.
Newest(row, other) == IF row.at > other.at THEN row ELSE other

TrailEnd(m) ==
    /\ trailTodo[m] = {} /\ trailing[m] = None
    /\ stop' = [t \in Trades |-> Newest(batch[m][t], stop[t])]
    /\ raced' = [n \in Modes |-> IF n = m THEN {}
                                 ELSE raced[n] \cup {t \in Trades : stop'[t] # stop[t]}]
    /\ batch' = [batch EXCEPT ![m] = [t \in Trades |-> NoRow]]
    /\ trailTodo' = [trailTodo EXCEPT ![m] = Idle]
    /\ UNCHANGED <<marketVars, trade, trailing, trailFrom, clock, hitVars,
                   reviewVars, cardVars, closeVars, cause, errors, faults>>

-----------------------------------------------------------------------------
(* The stop-hit sweep, every minute; a tick finds the close requests of    *)
(* the ticks before handled up to MaxAsks.                                 *)

HitStart(m) ==
    /\ m \in Sweeping /\ hitTodo[m] = Idle
    /\ \A t \in Trades : asked[m][t] < MaxAsks
    /\ hitTodo' = [hitTodo EXCEPT ![m] = Open]
    /\ UNCHANGED <<marketVars, trade, stop, trailVars, hitting, hitClose, hits,
                   reviewVars, cardVars, closeVars, cause, errors, faults>>

HitBars(m, t) ==
    /\ hitting[m] = None /\ t \in hitTodo[m] \ Idle
    /\ hitTodo' = [hitTodo EXCEPT ![m] = @ \ {t}]
    /\ hitting' = [hitting EXCEPT ![m] = t]
    /\ hitClose' = [hitClose EXCEPT ![m] = Close(t)]
    /\ UNCHANGED <<marketVars, trade, stop, trailVars, hits, reviewVars,
                   cardVars, closeVars, cause, errors, faults>>

\* _effective_stop is read after the bars; a hit's request is buffered.
HitStop(m) ==
    /\ hitting[m] # None
    /\ hitting' = [hitting EXCEPT ![m] = None]
    /\ hitClose' = [hitClose EXCEPT ![m] = 0]
    /\ LET t == hitting[m] IN
       IF Hit(t, hitClose[m])
       THEN /\ hits' = [hits EXCEPT ![m] = @ \cup {t}]
            /\ cause' = [cause EXCEPT ![t] = @ \cup {"level"}]
       ELSE UNCHANGED <<hits, cause>>
    /\ UNCHANGED <<marketVars, trade, stop, trailVars, hitTodo, reviewVars,
                   cardVars, closeVars, errors, faults>>

\* Publish tests the dedup window of the close worker.
Ask(m, S) ==
    asked' = [asked EXCEPT ![m] = [t \in Trades |->
                IF t \in S \ keyed[m] THEN asked[m][t] + 1 ELSE asked[m][t]]]

HitEnd(m) ==
    /\ hitTodo[m] = {} /\ hitting[m] = None
    /\ Ask(m, hits[m])
    /\ hits' = [hits EXCEPT ![m] = {}]
    /\ hitTodo' = [hitTodo EXCEPT ![m] = Idle]
    /\ UNCHANGED <<marketVars, trade, stop, trailVars, hitting, hitClose,
                   reviewVars, cardVars, keyed, closing, cause, errors, faults>>

-----------------------------------------------------------------------------
(* The close worker: close_trade_handler and close_trade.                  *)

Key(m, t) == keyed' = [keyed EXCEPT ![m] = @ \cup {t}]
Answered(m, t) == asked' = [asked EXCEPT ![m][t] = @ - 1]

CloseStart(m, t) ==
    /\ closing[m] = None /\ asked[m][t] > 0 /\ trade[t] = "open"
    /\ closing' = [closing EXCEPT ![m] = t]
    /\ Answered(m, t)
    /\ UNCHANGED <<marketVars, trade, stop, trailVars, hitVars, reviewVars,
                   cardVars, keyed, cause, errors, faults>>

\* TradeNotClosableError is swallowed: the key is recorded.
CloseRefused(m, t) ==
    /\ closing[m] = None /\ asked[m][t] > 0 /\ trade[t] # "open"
    /\ Answered(m, t)
    /\ Key(m, t)
    /\ UNCHANGED <<marketVars, trade, stop, trailVars, hitVars, reviewVars,
                   cardVars, closing, cause, errors, faults>>

CloseCommit(m) ==
    /\ closing[m] # None
    /\ trade' = [trade EXCEPT ![closing[m]] = "closing"]
    /\ Key(m, closing[m])
    /\ closing' = [closing EXCEPT ![m] = None]
    /\ UNCHANGED <<marketVars, stop, trailVars, hitVars, reviewVars, cardVars,
                   asked, cause, errors, faults>>

\* The broker refuses or is late: the handler swallows that too, and the key
\* of a trade that is still open is recorded.
CloseSwallowed(m) ==
    /\ closing[m] # None /\ errors < MaxErrors
    /\ errors' = errors + 1
    /\ Key(m, closing[m])
    /\ closing' = [closing EXCEPT ![m] = None]
    /\ UNCHANGED <<marketVars, trade, stop, trailVars, hitVars, reviewVars,
                   cardVars, asked, cause, faults>>

\* A bug: the key is recorded although the unit of work is rolled back.
CloseFailsKeyed(m) ==
    /\ closing[m] # None /\ faults < MaxFaults
    /\ faults' = faults + 1
    /\ Key(m, closing[m])
    /\ closing' = [closing EXCEPT ![m] = None]
    /\ UNCHANGED <<marketVars, trade, stop, trailVars, hitVars, reviewVars,
                   cardVars, asked, cause, errors>>

\* The commit raises: rollback, no key.
CloseFails(m) ==
    /\ closing[m] # None /\ faults < MaxFaults
    /\ faults' = faults + 1
    /\ closing' = [closing EXCEPT ![m] = None]
    /\ UNCHANGED <<marketVars, trade, stop, trailVars, hitVars, reviewVars,
                   cardVars, asked, keyed, cause, errors>>

-----------------------------------------------------------------------------
(* The urgent-exit sweep, every 15 minutes: the card requests of the tick  *)
(* before are handled (every HTTP client of the fan-out has a timeout).    *)

Level(t) == [symbol |-> t, side |-> SideOf[t], quantity |-> 1,
             stop |-> stop[t].level, target |-> Target[t]]

\* What the account of a daemon answers for a trade.
Positions(m) == {[symbol |-> t, quantity |-> 1] :
                   t \in {u \in held : ModeOf[u] = m}}

Leg(t, kind, level) ==
    [symbol |-> t, action |-> ExitAction(SideOf[t]), kind |-> kind,
     level |-> level]

\* Without native brackets no protective order rests at the broker.
WorkingOrders(m) ==
    IF m \in Sweeping THEN {}
    ELSE UNION {{Leg(t, "stop", ProposalStop[t]), Leg(t, "target", Target[t])} :
                  t \in {u \in held : ModeOf[u] = m}}

\* A loss, as far as the account holds the position.
Adverse(m, t) ==
    /\ t \in held /\ ModeOf[t] = m
    /\ IF SideOf[t] = "buy" THEN Close(t) < Entry[t] ELSE Close(t) > Entry[t]

\* PositionReviewService.review: open trades, positions, working orders.
ReviewStart(m) ==
    /\ m \in Reviewing /\ review[m] = Idle /\ requests[m] = {}
    /\ review' = [review EXCEPT ![m] = Open]
    /\ LET levels == {Level(t) : t \in Open}
       IN  evidence' = [evidence EXCEPT ![m] =
             {t \in Open : \/ Adverse(m, t)
                           \/ Divergences(Level(t), levels, Positions(m),
                                          WorkingOrders(m)) # {}}]
    /\ UNCHANGED <<marketVars, trade, stop, trailVars, hitVars, assessing,
                   alerts, cardVars, closeVars, cause, errors, faults>>

\* A bug: an alert that nobody has answered is raised again.
CardOpenNever(t) == FALSE

\* has_pending_exit_for_trade
CardOpen(t) == \E m \in Modes : pending[t][m] > 0

\* No alert for a trade with an open card or without evidence.
ReviewOne(m, t) ==
    /\ assessing[m] = None /\ t \in review[m] \ Idle
    /\ review' = [review EXCEPT ![m] = @ \ {t}]
    /\ assessing' = [assessing EXCEPT ![m] =
                       IF CardOpen(t) \/ t \notin evidence[m] THEN None ELSE t]
    /\ UNCHANGED <<marketVars, trade, stop, trailVars, hitVars, evidence,
                   alerts, cardVars, closeVars, cause, errors, faults>>

\* The advisor's verdict.
Assess(m, sell) ==
    /\ assessing[m] # None
    /\ alerts' = [alerts EXCEPT ![m] =
                    IF sell THEN @ \cup {assessing[m]} ELSE @]
    /\ assessing' = [assessing EXCEPT ![m] = None]
    /\ UNCHANGED <<marketVars, trade, stop, trailVars, hitVars, review,
                   evidence, cardVars, closeVars, cause, errors, faults>>

ReviewEnd(m) ==
    /\ review[m] = {} /\ assessing[m] = None
    /\ requests' = [requests EXCEPT ![m] = alerts[m]]
    /\ alerts' = [alerts EXCEPT ![m] = {}]
    /\ evidence' = [evidence EXCEPT ![m] = {}]
    /\ review' = [review EXCEPT ![m] = Idle]
    /\ UNCHANGED <<marketVars, trade, stop, trailVars, hitVars, assessing,
                   pending, granted, closeVars, cause, errors, faults>>

\* _exit_approval_requested_handler
InsertCard(m, t) ==
    /\ t \in requests[m]
    /\ requests' = [requests EXCEPT ![m] = @ \ {t}]
    /\ pending' = [pending EXCEPT ![t][m] = @ + 1]
    /\ UNCHANGED <<marketVars, trade, stop, trailVars, hitVars, reviewVars,
                   granted, closeVars, cause, errors, faults>>

\* One of the cards of a trade is answered.
Answer(m, t) ==
    /\ pending[t][m] > 0
    /\ pending' = [pending EXCEPT ![t][m] = @ - 1]

\* A bug: whatever the decision, the trade is closed.
DismissCloses(m, t) ==
    /\ Answer(m, t) /\ asked[Poller][t] < MaxAsks
    /\ Ask(Poller, {t})
    /\ UNCHANGED <<marketVars, trade, stop, trailVars, hitVars, reviewVars,
                   requests, granted, keyed, closing, cause, errors, faults>>

\* A rejection or the expiry of a card.
Dismiss(m, t) ==
    /\ Answer(m, t)
    /\ UNCHANGED <<marketVars, trade, stop, trailVars, hitVars, reviewVars,
                   requests, granted, closeVars, cause, errors, faults>>

\* A bug: the bridge takes every grant for an entry's.
GrantOfEntry(m, t) ==
    /\ Answer(m, t)
    /\ granted' = granted \cup {t}
    /\ UNCHANGED <<marketVars, trade, stop, trailVars, hitVars, reviewVars,
                   requests, closeVars, cause, errors, faults>>

\* A grant tapped in Telegram, through the bridge of the polling daemon.
Grant(m, t) ==
    /\ Answer(m, t) /\ asked[Poller][t] < MaxAsks
    /\ granted' = granted \cup {t}
    /\ cause' = [cause EXCEPT ![t] = @ \cup {"grant"}]
    /\ Ask(Poller, {t})
    /\ UNCHANGED <<marketVars, trade, stop, trailVars, hitVars, reviewVars,
                   requests, keyed, closing, errors, faults>>

\* A grant through MCP (_run_action): the API process commits it, no daemon
\* hears of it and nothing is asked of the close worker.
GrantMcp(m, t) ==
    /\ Answer(m, t)
    /\ UNCHANGED <<marketVars, trade, stop, trailVars, hitVars, reviewVars,
                   requests, granted, closeVars, cause, errors, faults>>

-----------------------------------------------------------------------------
(* The world outside, and faults.                                          *)

\* The daily market data sync.
Sync(t, bar) ==
    /\ Len(bars[t]) < Len(Bars) /\ bar \in Bars[Len(bars[t]) + 1]
    /\ bars' = [bars EXCEPT ![t] = Append(@, bar)]
    /\ UNCHANGED <<held, trade, stop, trailVars, hitVars, reviewVars, cardVars,
                   closeVars, cause, errors, faults>>

\* The exit executes and its fill is reconciled.
Fill(t) ==
    /\ trade[t] = "closing"
    /\ trade' = [trade EXCEPT ![t] = "closed"]
    /\ held' = held \ {t}
    /\ UNCHANGED <<bars, stop, trailVars, hitVars, reviewVars, cardVars,
                   closeVars, cause, errors, faults>>

\* The owner sells in the broker's own application.
SellByHand(t) ==
    /\ trade[t] = "open" /\ t \in held
    /\ held' = held \ {t}
    /\ UNCHANGED <<bars, trade, stop, trailVars, hitVars, reviewVars, cardVars,
                   closeVars, cause, errors, faults>>

\* A tick that is rolled back leaves nothing.
TrailReset(m) ==
    /\ trailTodo' = [trailTodo EXCEPT ![m] = Idle]
    /\ trailing' = [trailing EXCEPT ![m] = None]
    /\ trailFrom' = [trailFrom EXCEPT ![m] = 0]
    /\ batch' = [batch EXCEPT ![m] = [t \in Trades |-> NoRow]]
    /\ raced' = [raced EXCEPT ![m] = {}]
    /\ UNCHANGED clock

HitReset(m) ==
    /\ hitTodo' = [hitTodo EXCEPT ![m] = Idle]
    /\ hitting' = [hitting EXCEPT ![m] = None]
    /\ hitClose' = [hitClose EXCEPT ![m] = 0]
    /\ hits' = [hits EXCEPT ![m] = {}]

ReviewReset(m) ==
    /\ review' = [review EXCEPT ![m] = Idle]
    /\ evidence' = [evidence EXCEPT ![m] = {}]
    /\ assessing' = [assessing EXCEPT ![m] = None]
    /\ alerts' = [alerts EXCEPT ![m] = {}]

Fault == faults < MaxFaults /\ faults' = faults + 1

\* A trade whose bars cannot be read is skipped, the tick goes on.
TrailSkips(m) ==
    /\ trailing[m] # None
    /\ Fault
    /\ trailing' = [trailing EXCEPT ![m] = None]
    /\ trailFrom' = [trailFrom EXCEPT ![m] = 0]
    /\ UNCHANGED <<marketVars, trade, stop, trailTodo, batch, clock, raced,
                   hitVars, reviewVars, cardVars, closeVars, cause, errors>>

HitSkips(m) ==
    /\ hitting[m] # None
    /\ Fault
    /\ hitting' = [hitting EXCEPT ![m] = None]
    /\ hitClose' = [hitClose EXCEPT ![m] = 0]
    /\ UNCHANGED <<marketVars, trade, stop, trailVars, hitTodo, hits,
                   reviewVars, cardVars, closeVars, cause, errors>>

\* The tick runs into its timeout, or its commit fails.
TrailFails(m) ==
    /\ trailTodo[m] # Idle
    /\ Fault /\ TrailReset(m)
    /\ UNCHANGED <<marketVars, trade, stop, hitVars, reviewVars, cardVars,
                   closeVars, cause, errors>>

HitFails(m) ==
    /\ hitTodo[m] # Idle
    /\ Fault /\ HitReset(m)
    /\ UNCHANGED <<marketVars, trade, stop, trailVars, reviewVars, cardVars,
                   closeVars, cause, errors>>

ReviewFails(m) ==
    /\ review[m] # Idle
    /\ Fault /\ ReviewReset(m)
    /\ UNCHANGED <<marketVars, trade, stop, trailVars, hitVars, cardVars,
                   closeVars, cause, errors>>

\* The handler of a card request raises: no card.
InsertFails(m, t) ==
    /\ t \in requests[m]
    /\ Fault
    /\ requests' = [requests EXCEPT ![m] = @ \ {t}]
    /\ UNCHANGED <<marketVars, trade, stop, trailVars, hitVars, reviewVars,
                   pending, granted, closeVars, cause, errors>>

\* A process ends; its queues and its dedup window go with it.
Crash(m) ==
    /\ Fault
    /\ TrailReset(m) /\ HitReset(m) /\ ReviewReset(m)
    /\ requests' = [requests EXCEPT ![m] = {}]
    /\ asked' = [asked EXCEPT ![m] = [t \in Trades |-> 0]]
    /\ keyed' = [keyed EXCEPT ![m] = {}]
    /\ closing' = [closing EXCEPT ![m] = None]
    /\ UNCHANGED <<marketVars, trade, stop, pending, granted, cause, errors>>

-----------------------------------------------------------------------------

TrailNext(m) ==
    TrailStart(m) \/ TrailOne(m) \/ TrailEnd(m) \/ \E t \in Trades : TrailRead(m, t)
HitNext(m) ==
    HitStart(m) \/ HitStop(m) \/ HitEnd(m) \/ \E t \in Trades : HitBars(m, t)
CloseNext(m) ==
    CloseCommit(m) \/ \E t \in Trades : CloseStart(m, t) \/ CloseRefused(m, t)
ReviewNext(m) ==
    \/ ReviewStart(m) \/ ReviewEnd(m)
    \/ \E t \in Trades : ReviewOne(m, t)
    \/ \E sell \in BOOLEAN : Assess(m, sell)
FaultNext(m) ==
    \/ CloseSwallowed(m) \/ CloseFails(m)
    \/ TrailSkips(m) \/ HitSkips(m)
    \/ TrailFails(m) \/ HitFails(m) \/ ReviewFails(m) \/ Crash(m)
    \/ \E t \in Trades : InsertFails(m, t)
WorldNext(t) ==
    \/ \E m \in Modes : Dismiss(m, t) \/ Grant(m, t) \/ GrantMcp(m, t)
    \/ Fill(t) \/ SellByHand(t)
    \/ \E bar \in UNION Range(Bars) : Sync(t, bar)

Next ==
    \/ \E m \in Modes : \/ TrailNext(m) \/ HitNext(m) \/ CloseNext(m)
                        \/ ReviewNext(m) \/ FaultNext(m)
                        \/ \E t \in Trades : InsertCard(m, t)
    \/ \E t \in Trades : WorldNext(t)

\* The scheduler fires every sweep again and again, ticks and workers go on.
Fairness ==
    \A m \in Modes : /\ WF_vars(TrailNext(m)) /\ WF_vars(HitNext(m))
                     /\ WF_vars(CloseNext(m)) /\ WF_vars(ReviewNext(m))
                     /\ WF_vars(\E t \in Trades : InsertCard(m, t))

Spec == Init /\ [][Next]_vars
FairSpec == Spec /\ Fairness

-----------------------------------------------------------------------------
(* Properties                                                              *)

Rows == [at : Nat, level : Int]
Worklists == (SUBSET Trades) \cup {Idle}

WorldOK ==
    /\ bars \in [Trades -> Seq(UNION Range(Bars))]
    /\ \A t \in Trades : Len(bars[t]) <= Len(Bars)
    /\ held \subseteq Trades
    /\ trade \in [Trades -> {"open", "closing", "closed"}]
    /\ errors \in Nat /\ faults \in Nat

TrailOK ==
    /\ clock \in Nat /\ stop \in [Trades -> Rows]
    /\ \A t \in Trades : stop[t].at <= clock
    /\ trailTodo \in [Modes -> Worklists]
    /\ trailing \in [Modes -> Trades \cup {None}]
    /\ trailFrom \in [Modes -> Int]
    /\ batch \in [Modes -> [Trades -> Rows]]
    /\ raced \in [Modes -> SUBSET Trades]
    /\ \A m \in Modes :
         /\ \A t \in Trades : batch[m][t].at <= clock
         /\ trailTodo[m] = Idle =>
              trailing[m] = None /\ \A t \in Trades : batch[m][t] = NoRow

HitOK ==
    /\ hitTodo \in [Modes -> Worklists]
    /\ hitting \in [Modes -> Trades \cup {None}]
    /\ hits \in [Modes -> SUBSET Trades]
    /\ \A m \in Modes :
         hitTodo[m] = Idle => hitting[m] = None /\ hits[m] = {}

ReviewOK ==
    /\ review \in [Modes -> Worklists]
    /\ assessing \in [Modes -> Trades \cup {None}]
    /\ evidence \in [Modes -> SUBSET Trades]
    /\ alerts \in [Modes -> SUBSET Trades]
    /\ \A m \in Modes :
         review[m] = Idle => assessing[m] = None /\ alerts[m] = {}

CardOK ==
    /\ requests \in [Modes -> SUBSET Trades]
    /\ pending \in [Trades -> [Modes -> Nat]]
    /\ granted \subseteq Trades

CloseOK ==
    /\ asked \in [Modes -> [Trades -> Nat]]
    /\ keyed \in [Modes -> SUBSET Trades]
    /\ closing \in [Modes -> Trades \cup {None}]
    /\ cause \in [Trades -> SUBSET {"level", "grant"}]

\* The variables have the values the code gives them; a tick works on one
\* trade at a time, and only while it runs.
TypeOK == WorldOK /\ TrailOK /\ HitOK /\ ReviewOK /\ CardOK /\ CloseOK

\* The ratchet, whatever bars come in, however ticks fail and however many
\* daemons sweep: a long's stop never falls below the one of its proposal, and
\* it is lowered only by a tick that another daemon raced -- one that moved the
\* stop of the trade after the tick had read it.
StopRatchets ==
    [][\A t \in Trades :
          /\ stop'[t].level >= ProposalStop[t]
          /\ stop'[t].level < stop[t].level => \E m \in Modes : t \in raced[m]]_vars

\* A position is sold only after a level of it was hit or a human granted its
\* exit card: the advisor alone sells nothing.
ExitHasCause ==
    /\ \A t \in Trades : trade[t] # "open" => cause[t] # {}
    /\ \A m \in Modes : closing[m] # None => cause[closing[m]] # {}

\* A trade has at most one exit card to answer of every daemon that reviews:
\* two that review at the same minute both find none open.
OneCardOpen ==
    \A t \in Trades : \A m \in Modes : pending[t][m] <= 1

\* An open trade whose level is hit is closed, unless the market recovers or
\* the broker refuses an exit; ticks may fail and processes crash.
BreachIsClosed ==
    \A t \in Trades :
        trade[t] = "open" /\ Hit(t, Close(t))
            ~> trade[t] # "open" \/ ~Hit(t, Close(t)) \/ errors > 0

\* The same when the broker may refuse or answer late: the exit is asked for
\* again.  A refusal the handler swallowed leaves the trade's key in the dedup
\* window, which suppresses every later request of the process.
RefusedExitIsRetried ==
    \A t \in Trades :
        trade[t] = "open" /\ Hit(t, Close(t))
            ~> trade[t] # "open" \/ ~Hit(t, Close(t))

\* An exit card granted in Telegram closes the trade when neither a process nor
\* the broker fails.  One granted through MCP closes nothing (GrantMcp), and is
\* no part of granted.
GrantIsHonoured ==
    \A t \in Trades :
        t \in granted ~> trade[t] # "open" \/ faults > 0 \/ errors > 0
=============================================================================

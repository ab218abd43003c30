----------------------------- MODULE RiskControl -----------------------------
(***************************************************************************)
(* The kill switch and the risk engine (contexts/risk/service.py,          *)
(* repository.py, engine.py and protections/, cli/ops.py, the /halt and    *)
(* /resume commands).                                                      *)
(*                                                                         *)
(* The switch is an append-only log of events and one cache row, written   *)
(* in one transaction; gates read only the committed cache.  An event is   *)
(* stamped before its transaction takes SQLite's write lock, so the order  *)
(* of the stamps is not the order of the commits.  Risk state is derived   *)
(* from the trades and the equity snapshots both daemons write.            *)
(*                                                                         *)
(* One tick is one 30-second bucket of the command handler.  All trades    *)
(* are of one symbol; the SELECTs of one load see one database.            *)
(***************************************************************************)
EXTENDS Integers, Sequences, FiniteSets, FiniteSetsExt

CONSTANTS
    Daemons,        \* one per mode: the risk workers
    Accounts,       \* the daemons whose broker answers the equity snapshot
    Terminals,      \* iguanatrader ops halt / resume
    Chats,          \* processes that dispatch /halt and /resume
    None,
    Caps,           \* RiskCaps: percentages, counts, ticks of cooldown
    Fallback,       \* capital without a snapshot
    Notionals, Equities, Results,   \* inputs: proposals, snapshots, P&L
    FirstTick, DayLen, WeekLen,     \* ticks in a day, days in a week
    LastTick, MaxCommands, MaxCloses, MaxSnapshots, MaxFaults    \* bounds

CapOrder == <<"per_trade", "daily_loss", "weekly_loss", "max_open",
              "max_drawdown", "stoploss_guard", "cooldown_period">>
CapTypes == {CapOrder[i] : i \in 1..7}
Outcomes == CapTypes \cup {"allow"}
Regime == {"daily_loss", "weekly_loss", "max_drawdown"}
Transitions == {"activated", "deactivated"}
Operators == Terminals \cup Chats
Workers == Daemons \cup Operators

ASSUME RiskAssumption ==
    /\ Daemons \cap Operators = {} /\ Terminals \cap Chats = {}
    /\ None \notin Workers /\ None \notin Outcomes \cup Transitions
    /\ Accounts \subseteq Daemons
    /\ Results \subseteq Int /\ Equities \subseteq Int
    /\ {FirstTick, LastTick, MaxCommands, MaxCloses, MaxSnapshots, MaxFaults}
         \subseteq Nat
    /\ {DayLen, WeekLen} \subseteq Nat \ {0}

VARIABLES
    now,
    positions, closes,  \* trades: how many are live, what was realised
    equity,             \* equity_snapshots, in order of created_at
    log,                \* kill_switch_events, in order of commit
    cache,              \* kill_switch_state: is_active and last_event_id
    lock,               \* the database's writer
    pc, decision, stamp, draft,  \* a worker's step and unflushed work
    seen,               \* a chat's command keys
    told,               \* the ok answer a chat has not yet shown
    announced,          \* events a daemon published as transitions
    breaches,           \* history: regime rejections, by day
    late,               \* history: evaluations accepted after a halt
    commands, faults

tradeVars == <<positions, closes, equity>>
switchVars == <<log, cache, announced>>
workVars == <<decision, stamp, draft>>
chatVars == <<seen, told, commands>>
histVars == <<breaches, late>>
vars == <<now, tradeVars, switchVars, lock, pc, workVars, chatVars,
          histVars, faults>>

Day(t) == t \div DayLen
DayStart == now - (now % DayLen)
WeekStart == now - (now % (DayLen * WeekLen))
Event(transition, source, at) ==
    [transition |-> transition, source |-> source, at |-> at]

Init ==
    /\ now = FirstTick
    /\ positions = 0 /\ closes = <<>> /\ equity = <<>>
    /\ log = <<>>
    /\ cache = [active |-> FALSE, last |-> 0]
    /\ lock = None
    /\ pc = [w \in Workers |-> "idle"]
    /\ decision = [d \in Daemons |-> "allow"]
    /\ stamp = [w \in Workers |-> FirstTick]
    /\ draft = [w \in Workers |-> <<>>]
    /\ seen = [c \in Chats |-> {}]
    /\ told = [c \in Chats |-> None]
    /\ announced = {}
    /\ breaches = {}
    /\ late = [d \in Daemons |-> 0]
    /\ commands = 0 /\ faults = 0

-----------------------------------------------------------------------------
(* What load_risk_state derives and the seven protections decide.          *)

Latest == equity[Len(equity)].value
Peak == Max({equity[i].value : i \in DOMAIN equity})
Capital == IF equity = <<>> THEN Fallback ELSE Latest

\* The realised loss of the trades closed since a day or a week began.
LossSince(start) ==
    -MapThenSumSet(LAMBDA i : closes[i].pnl,
                   {i \in DOMAIN closes : closes[i].at >= start})

Reaches(amount, whole, pct) == whole > 0 /\ amount * 100 >= pct * whole

\* Stops among the trailing closed trades.
Streak ==
    LET n == Len(closes) IN
    Cardinality({i \in DOMAIN closes : i > n - Caps.lookback /\ closes[i].stop})

PerTrade(notional) ==
    Capital <= 0 \/ notional * 100 > Caps.per_trade * Capital
DailyLoss == Reaches(LossSince(DayStart), Capital, Caps.daily)
WeeklyLoss == Reaches(LossSince(WeekStart), Capital, Caps.weekly)
MaxOpen == positions >= Caps.open
MaxDrawdown == equity # <<>> /\ Reaches(Peak - Latest, Peak, Caps.drawdown)
StoplossGuard == Caps.streak # 0 /\ Streak >= Caps.streak
CooldownPeriod == closes # <<>> /\ now - closes[Len(closes)].at < Caps.cooldown

Breached(cap, notional) ==
    CASE cap = "per_trade" -> PerTrade(notional)
      [] cap = "daily_loss" -> DailyLoss
      [] cap = "weekly_loss" -> WeeklyLoss
      [] cap = "max_open" -> MaxOpen
      [] cap = "max_drawdown" -> MaxDrawdown
      [] cap = "stoploss_guard" -> StoplossGuard
      [] cap = "cooldown_period" -> CooldownPeriod

\* engine.evaluate: the first protection that does not allow.
Evaluate(notional) ==
    LET hits == {i \in 1..7 : Breached(CapOrder[i], notional)}
    IN  IF hits = {} THEN "allow" ELSE CapOrder[Min(hits)]

-----------------------------------------------------------------------------
(* A daemon evaluates a proposal (RiskService.evaluate_proposal).          *)

\* A bug: the gate is left out.
GateOpen(d) ==
    /\ pc[d] = "idle"
    /\ pc' = [pc EXCEPT ![d] = "gated"]
    /\ UNCHANGED <<now, tradeVars, switchVars, lock, workVars, chatVars,
                   histVars, faults>>

\* The gate; an active switch raises before anything is written.
Gate(d) ==
    /\ pc[d] = "idle" /\ ~cache.active
    /\ pc' = [pc EXCEPT ![d] = "gated"]
    /\ UNCHANGED <<now, tradeVars, switchVars, lock, workVars, chatVars,
                   histVars, faults>>

Load(d, notional) ==
    /\ pc[d] = "gated"
    /\ pc' = [pc EXCEPT ![d] = "decided"]
    /\ decision' = [decision EXCEPT ![d] = Evaluate(notional)]
    /\ stamp' = [stamp EXCEPT ![d] = now]
    /\ UNCHANGED <<now, tradeVars, switchVars, lock, draft, chatVars,
                   histVars, faults>>

\* save_evaluation: the flush takes the write lock.
Save(d) ==
    /\ pc[d] = "decided" /\ lock = None
    /\ lock' = d
    /\ pc' = [pc EXCEPT ![d] =
                IF decision[d] \in Regime THEN "saved" ELSE "done"]
    /\ UNCHANGED <<now, tradeVars, switchVars, workVars, chatVars, histVars,
                   faults>>

\* A bug: the check of the day ignores the source's day.
NeverAutoToday == FALSE

\* has_today_automatic_breach_event, of any cap type.
AutoToday ==
    \E i \in DOMAIN log :
        /\ log[i].transition = "activated"
        /\ log[i].source = "automatic_cap_breach"
        /\ Day(log[i].at) = Day(now)

\* A bug: the regime rejection is committed before the switch is tripped.
CheckAfterwards(d) ==
    /\ pc[d] = "saved"
    /\ pc' = [pc EXCEPT ![d] = "done"]
    /\ UNCHANGED <<now, tradeVars, switchVars, lock, workVars, chatVars,
                   histVars, faults>>

Check(d) ==
    /\ pc[d] = "saved"
    /\ pc' = [pc EXCEPT ![d] = IF AutoToday THEN "done" ELSE "tripping"]
    /\ UNCHANGED <<now, tradeVars, switchVars, lock, workVars, chatVars,
                   histVars, faults>>

\* activate_kill_switch: the event row and the cache upsert.
Trip(d) ==
    /\ pc[d] = "tripping"
    /\ pc' = [pc EXCEPT ![d] = "done"]
    /\ draft' = [draft EXCEPT
                   ![d] = <<Event("activated", "automatic_cap_breach", now)>>]
    /\ UNCHANGED <<now, tradeVars, switchVars, lock, decision, stamp,
                   chatVars, histVars, faults>>

-----------------------------------------------------------------------------
(* An operator halts or resumes.                                           *)

Source(o) == IF o \in Terminals THEN "cli" ELSE "channel_command"

\* The event is stamped before its INSERT asks for the write lock.
Submit(o, transition) ==
    /\ commands' = commands + 1
    /\ pc' = [pc EXCEPT ![o] = "stamped"]
    /\ draft' = [draft EXCEPT ![o] = <<Event(transition, Source(o), now)>>]
    /\ UNCHANGED <<now, tradeVars, switchVars, lock, decision, stamp, seen,
                   told, histVars, faults>>

Key(transition) == <<transition, now>>

\* dispatch: a key of this bucket is answered ok without the handler.
Command(o, transition) ==
    /\ pc[o] = "idle" /\ commands < MaxCommands
    /\ o \in Chats => told[o] = None
    /\ IF o \in Chats /\ Key(transition) \in seen[o]
       THEN /\ told' = [told EXCEPT ![o] = transition]
            /\ commands' = commands + 1
            /\ UNCHANGED <<now, tradeVars, switchVars, lock, pc, workVars,
                           seen, histVars, faults>>
       ELSE Submit(o, transition)

\* append_kill_switch_event and update_kill_switch_cache.
AppendEvent(o) ==
    /\ pc[o] = "stamped" /\ lock = None
    /\ lock' = o
    /\ pc' = [pc EXCEPT ![o] = "done"]
    /\ UNCHANGED <<now, tradeVars, switchVars, workVars, chatVars, histVars,
                   faults>>

Show(c) ==
    /\ told[c] # None
    /\ told' = [told EXCEPT ![c] = None]
    /\ UNCHANGED <<now, tradeVars, switchVars, lock, pc, workVars, seen,
                   commands, histVars, faults>>

-----------------------------------------------------------------------------
(* Commit and failure of any unit of work.                                 *)

\* What a unit of work held in memory is gone when it ends.
Forget(w) ==
    /\ draft' = [draft EXCEPT ![w] = <<>>]
    /\ stamp' = [stamp EXCEPT ![w] = FirstTick]
    /\ decision' = [d \in Daemons |-> IF d = w THEN "allow" ELSE decision[d]]

Activates(e) == e.transition = "activated"

\* A bug: the event is published without the upsert's rowcount.
AlwaysTransitioned(e) == TRUE

\* The upsert's rowcount: whether is_active changed.
Transitioned(e) == Activates(e) # cache.active

\* A bug: an event that repeats the last transition is written over it.
RecordReplaces(w, e) ==
    LET n == IF log # <<>> /\ log[Len(log)].transition = e.transition
             THEN Len(log) ELSE Len(log) + 1
    IN  /\ log' = SubSeq(log, 1, n - 1) \o <<e>>
        /\ cache' = [active |-> Activates(e), last |-> n]
        /\ announced' = announced

\* An uncommitted event becomes the log's last and the cache's.  Only a
\* daemon has a bus, and a crash may lose what it would publish.
Record(w, e) ==
    /\ log' = Append(log, e)
    /\ cache' = [active |-> Activates(e), last |-> Len(log) + 1]
    /\ announced' \in {announced,
         announced \cup (IF w \in Daemons /\ Transitioned(e)
                         THEN {Len(log) + 1} ELSE {})}

\* The answer of dispatch, whose key is recorded only when the handler is ok.
Answer(w, e) ==
    IF w \in Chats
    THEN /\ told' = [told EXCEPT ![w] = e.transition]
         /\ seen' = [seen EXCEPT ![w] = @ \cup {<<e.transition, e.at>>}]
    ELSE UNCHANGED <<told, seen>>

CommitEvent(w) ==
    /\ draft[w] # <<>>
    /\ Record(w, draft[w][1])
    /\ Answer(w, draft[w][1])
    /\ late' = IF Activates(draft[w][1]) /\ ~cache.active
               THEN [d \in Daemons |-> 0] ELSE late

\* An evaluation that trips nothing.
CommitPlain(w) ==
    /\ draft[w] = <<>>
    /\ late' = IF cache.active /\ w \in Daemons /\ decision[w] = "allow"
               THEN [late EXCEPT ![w] = @ + 1] ELSE late
    /\ UNCHANGED <<switchVars, seen, told>>

Commit(w) ==
    /\ pc[w] = "done"
    /\ CommitEvent(w) \/ CommitPlain(w)
    /\ breaches' = IF w \in Daemons /\ decision[w] \in Regime
                   THEN breaches \cup {Day(stamp[w])} ELSE breaches
    /\ lock' = None
    /\ pc' = [pc EXCEPT ![w] = "idle"]
    /\ Forget(w)
    /\ UNCHANGED <<now, tradeVars, commands, faults>>

\* A crash, or a statement or a commit that raises: all is rolled back.
Fail(w) ==
    /\ pc[w] # "idle" /\ faults < MaxFaults
    /\ faults' = faults + 1
    /\ pc' = [pc EXCEPT ![w] = "idle"]
    /\ Forget(w)
    /\ lock' = IF lock = w THEN None ELSE lock
    /\ UNCHANGED <<now, tradeVars, switchVars, chatVars, histVars>>

-----------------------------------------------------------------------------
(* The rest of the program, as the risk state sees it.                     *)

Tick ==
    /\ now < LastTick
    /\ now' = now + 1
    /\ UNCHANGED <<tradeVars, switchVars, lock, pc, workVars, chatVars,
                   histVars, faults>>

Open ==
    /\ lock = None /\ positions + Len(closes) < MaxCloses
    /\ positions' = positions + 1
    /\ UNCHANGED <<now, closes, equity, switchVars, lock, pc, workVars,
                   chatVars, histVars, faults>>

Close(pnl) ==
    /\ lock = None /\ positions > 0
    /\ positions' = positions - 1
    /\ closes' = Append(closes, [at |-> now, pnl |-> pnl, stop |-> pnl < 0])
    /\ UNCHANGED <<now, equity, switchVars, lock, pc, workVars, chatVars,
                   histVars, faults>>

\* EquitySnapshotSweepService.sweep of one daemon.
Snapshot(m, value) ==
    /\ lock = None /\ Len(equity) < MaxSnapshots
    /\ equity' = Append(equity, [mode |-> m, value |-> value])
    /\ UNCHANGED <<now, positions, closes, switchVars, lock, pc, workVars,
                   chatVars, histVars, faults>>

EvaluateNext(d) ==
    \/ Gate(d) \/ Save(d) \/ Check(d) \/ Trip(d)
    \/ \E n \in Notionals : Load(d, n)

OperatorNext(o) == AppendEvent(o) \/ \E t \in Transitions : Command(o, t)

Next ==
    \/ \E d \in Daemons : EvaluateNext(d)
    \/ \E o \in Operators : OperatorNext(o)
    \/ \E w \in Workers : Commit(w) \/ Fail(w)
    \/ \E c \in Chats : Show(c)
    \/ Tick \/ Open
    \/ \E pnl \in Results : Close(pnl)
    \/ \E m \in Accounts, v \in Equities : Snapshot(m, v)

Spec == Init /\ [][Next]_vars

-----------------------------------------------------------------------------
(* Properties                                                              *)

EventsT == [transition : Transitions,
            source : {"cli", "channel_command", "automatic_cap_breach"},
            at : Nat]

\* Types; the write lock is held exactly by a worker past its first flush.
TypeOK ==
    /\ now \in Nat /\ positions \in Nat
    /\ closes \in Seq([at : Nat, pnl : Int, stop : BOOLEAN])
    /\ equity \in Seq([mode : Accounts, value : Int])
    /\ log \in Seq(EventsT)
    /\ cache \in [active : BOOLEAN, last : Nat]
    /\ pc \in [Workers -> {"idle", "gated", "decided", "saved", "tripping",
                           "stamped", "done"}]
    /\ lock \in Workers \cup {None}
    /\ \A w \in Workers : lock = w <=> pc[w] \in {"saved", "tripping", "done"}
    /\ decision \in [Daemons -> Outcomes]
    /\ stamp \in [Workers -> Nat]
    /\ draft \in [Workers -> Seq(EventsT)]
    /\ \A w \in Workers : Len(draft[w]) <= 1
    /\ seen \in [Chats -> SUBSET (Transitions \X Nat)]
    /\ told \in [Chats -> Transitions \cup {None}]
    /\ announced \in SUBSET Nat /\ breaches \in SUBSET Nat
    /\ late \in [Daemons -> Nat]
    /\ commands \in Nat /\ faults \in Nat

\* Two daemons that breach at once trip the switch once in a UTC day
\* (_maybe_auto_activate_on_breach), also across midnight.
AutoOncePerDay ==
    \A i, j \in DOMAIN log :
        /\ log[i].source = "automatic_cap_breach"
        /\ log[j].source = "automatic_cap_breach"
        /\ Day(log[i].at) = Day(log[j].at)
        => i = j

\* Subscribers hear of an activation only when the switch was off before it
\* (#43: two activators must not both publish).
AnnouncedOnce ==
    \A i \in announced :
        /\ i \in DOMAIN log
        /\ i > 1 => Activates(log[i]) # Activates(log[i - 1])
        /\ i = 1 => Activates(log[1])

\* A halt lets each daemon accept at most the one proposal it had gated.
HaltStopsEvaluations == \A d \in Daemons : late[d] <= 1

\* A rejection for a loss or a drawdown is never recorded without the switch
\* having been tripped that day or since (one transaction, design D6).
BreachTripsSwitch ==
    \A day \in breaches :
        \E i \in DOMAIN log :
            /\ log[i].source = "automatic_cap_breach"
            /\ Day(log[i].at) >= day

\* What the contract calls the switch.
active == cache.active
Contract == INSTANCE SwitchContract

\* One switch with one history: whatever the order of the stamps, a command
\* takes effect as its transaction commits and is never rewritten
\* (append_kill_switch_event and update_kill_switch_cache together).
ImplementsContract == Contract!Spec

\* An account is that far below its own peak.
Fallen(m) ==
    LET mine == {i \in DOMAIN equity : equity[i].mode = m}
    IN  /\ mine # {}
        /\ LET top == Max({equity[i].value : i \in mine})
           IN  Reaches(top - equity[Max(mine)].value, top, Caps.drawdown)

\* A daemon finds a drawdown only when an account has fallen.  The code breaks
\* it: load_risk_state mixes the snapshots of all modes.
DrawdownIsReal ==
    [][\A d \in Daemons :
         decision[d] # "max_drawdown" /\ decision'[d] = "max_drawdown"
         => \E m \in Accounts : Fallen(m)]_vars

\* A chat that is told "ok" for /halt finds the switch on.
HaltIsHonoured ==
    [][\A c \in Chats :
         told[c] = None /\ told'[c] = "activated" => cache'.active]_vars

===============================================================================

------------------------------- MODULE Approval -------------------------------
(***************************************************************************)
(* Human approval of entries and urgent exits (contexts/approval): the     *)
(* cards, the channels a decision can come through, the timeout sweep of   *)
(* every daemon, the write lock of the database they share, and the bridge *)
(* that turns a decision into an order to the trading context.             *)
(*                                                                         *)
(* Processes.  Each daemon (paper, live) has a bus of its own, a bridge    *)
(* and a timeout sweep; one of them, the Poller, also reads the Telegram   *)
(* taps.  The API process serves the "mcp" and "dashboard" channels and    *)
(* has a bus nobody bridges from.  All of them write one SQLite database   *)
(* in WAL mode: reads never wait, the first INSERT of a transaction takes  *)
(* the single write lock and the transaction's end gives it back.          *)
(*                                                                         *)
(* A command for a card that is expired (410) or for a sender who is not   *)
(* authorised, and one denied because approvals are paused, changes        *)
(* nothing and is no step here.                                            *)
(***************************************************************************)
EXTENDS Naturals, FiniteSets

CONSTANTS
    Requests,      \* approval cards
    Exits,         \* the cards with action_type = 'exit'; the others open a trade
    Daemons,       \* daemon processes
    Poller,        \* the daemon that owns the Telegram long-poll
    Channels,      \* the channels in use, of AllChannels
    NoOne,         \* nobody holds the write lock
    NoJob,         \* the channel is not working on a command
    MaxCommands,   \* bound: commands issued over the behaviour
    MaxFaults      \* bound: crashes, failed commits and lock timeouts

AllChannels == {"telegram", "mcp", "dashboard"}

ASSUME ApprovalAssumption ==
    /\ Exits \subseteq Requests
    /\ Poller \in Daemons
    /\ Channels \subseteq AllChannels
    /\ Daemons \cap AllChannels = {}
    /\ "api" \notin Daemons
    /\ NoOne \notin Daemons \cup AllChannels
    /\ MaxCommands \in Nat
    /\ MaxFaults \in Nat

Command == [req : Requests, out : {"granted", "rejected"}]

ASSUME NoJobAssumption == NoJob \notin Command

Processes == Daemons \cup {"api"}
ProcessOf(ch) == IF ch = "telegram" THEN Poller ELSE "api"

\* An outcome event on a daemon's bus.  "action" is its action_type field,
\* which is not always the one of the card.
Event == [req : Requests, out : {"granted", "rejected", "timeout"},
          action : {"entry", "exit"}]

\* What the bridge asks of the trading context of its daemon.
Signal == [at : Daemons, req : Requests, what : {"open", "close", "reject"}]

VARIABLES
    row,        \* the approval_requests row, and whether expires_at has passed
    decision,   \* the committed approval_decisions row, "none" without one
    lock,       \* who holds the write lock of the database
    job,        \* the command each channel is working on
    pc,         \* where the channel is in it
    seen,       \* _recent_keys of the command dispatcher, per process
    answered,   \* history: commands answered with status "ok"
    sweep,      \* where each daemon's timeout sweep is
    todo,       \* the cards its SELECT returned and its loop has not reached
    batch,      \* the decisions it has inserted and not committed
    outbox,     \* the cards whose TimedOut event it has buffered
    bus,        \* outcome events on a daemon's bus
    told,       \* history: what the bridges asked of trading
    commands,   \* commands issued so far
    faults      \* faults so far

humanVars == <<job, pc, seen, answered, commands>>
sweepVars == <<sweep, todo, batch, outbox>>
vars == <<row, decision, lock, humanVars, sweepVars, bus, told, faults>>

ActionOf(r) == IF r \in Exits THEN "exit" ELSE "entry"

-----------------------------------------------------------------------------
Init ==
    /\ row = [r \in Requests |-> "absent"]
    /\ decision = [r \in Requests |-> "none"]
    /\ lock = NoOne
    /\ job = [ch \in AllChannels |-> NoJob]
    /\ pc = [ch \in AllChannels |-> "idle"]
    /\ seen = [p \in Processes |-> {}]
    /\ answered = {}
    /\ sweep = [d \in Daemons |-> "idle"]
    /\ todo = [d \in Daemons |-> {}]
    /\ batch = [d \in Daemons |-> {}]
    /\ outbox = [d \in Daemons |-> {}]
    /\ bus = [d \in Daemons |-> {}]
    /\ told = {}
    /\ commands = 0
    /\ faults = 0

\* The handler of (Exit)ApprovalRequested: insert the row, send the card,
\* commit.
Ask(r) ==
    /\ row[r] = "absent"
    /\ lock = NoOne
    /\ row' = [row EXCEPT ![r] = "open"]
    /\ UNCHANGED <<decision, lock, humanVars, sweepVars, bus, told, faults>>

\* The clock reaches expires_at.
Expire(r) ==
    /\ row[r] = "open"
    /\ row' = [row EXCEPT ![r] = "expired"]
    /\ UNCHANGED <<decision, lock, humanVars, sweepVars, bus, told, faults>>

-----------------------------------------------------------------------------
(* Commands of a human.                                                    *)

\* dispatch: the key is in the window, the command is answered "ok" at once.
Suppress(ch, cmd) ==
    /\ ch \in Channels
    /\ pc[ch] = "idle"
    /\ commands < MaxCommands
    /\ cmd \in seen[ProcessOf(ch)]
    /\ commands' = commands + 1
    /\ answered' = answered \cup {cmd}
    /\ UNCHANGED <<row, decision, lock, job, pc, seen, sweepVars, bus, told, faults>>

\* dispatch and record_decision up to the INSERT: read the request, pass the
\* expiry gate.
Begin(ch, cmd) ==
    /\ ch \in Channels
    /\ pc[ch] = "idle"
    /\ commands < MaxCommands
    /\ cmd \notin seen[ProcessOf(ch)]
    /\ row[cmd.req] = "open"
    /\ commands' = commands + 1
    /\ job' = [job EXCEPT ![ch] = cmd]
    /\ pc' = [pc EXCEPT ![ch] = "gated"]
    /\ UNCHANGED <<row, decision, lock, seen, answered, sweepVars, bus, told, faults>>

\* Mutant: the decision is inserted without its UNIQUE constraint.
InsertTwice(ch) ==
    /\ pc[ch] = "gated"
    /\ lock = NoOne
    /\ lock' = ch
    /\ pc' = [pc EXCEPT ![ch] = "inserted"]
    /\ seen' = [seen EXCEPT ![ProcessOf(ch)] = @ \cup {job[ch]}]
    /\ UNCHANGED <<row, decision, job, answered, commands, sweepVars, bus, told, faults>>

\* Mutant: the event is published before the commit.
InsertAndPublish(ch) ==
    /\ pc[ch] = "gated"
    /\ lock = NoOne
    /\ decision[job[ch].req] = "none"
    /\ lock' = ch
    /\ pc' = [pc EXCEPT ![ch] = "inserted"]
    /\ seen' = [seen EXCEPT ![ProcessOf(ch)] = @ \cup {job[ch]}]
    /\ bus' = [bus EXCEPT ![Poller] = @ \cup
                 {[req |-> job[ch].req, out |-> job[ch].out,
                   action |-> ActionOf(job[ch].req)]}]
    /\ UNCHANGED <<row, decision, job, answered, commands, sweepVars, told, faults>>

\* The INSERT succeeds under the write lock; the event goes to the outbox (or,
\* in the API process, to a bus without a bridge) and dispatch records the key.
Insert(ch) ==
    /\ pc[ch] = "gated"
    /\ lock = NoOne
    /\ decision[job[ch].req] = "none"
    /\ lock' = ch
    /\ pc' = [pc EXCEPT ![ch] = "inserted"]
    /\ seen' = [seen EXCEPT ![ProcessOf(ch)] = @ \cup {job[ch]}]
    /\ UNCHANGED <<row, decision, job, answered, commands, sweepVars, bus, told, faults>>

\* The INSERT violates uq_approval_decisions_request_id: rollback, and the
\* command handler turns AlreadyDecided into "ok".
AlreadyDecided(ch) ==
    /\ pc[ch] = "gated"
    /\ lock = NoOne
    /\ decision[job[ch].req] # "none"
    /\ seen' = [seen EXCEPT ![ProcessOf(ch)] = @ \cup {job[ch]}]
    /\ answered' = answered \cup {job[ch]}
    /\ pc' = [pc EXCEPT ![ch] = "idle"]
    /\ job' = [job EXCEPT ![ch] = NoJob]
    /\ UNCHANGED <<row, decision, lock, commands, sweepVars, bus, told, faults>>

\* The Telegram unit of work commits; its event is still in the outbox.
CommitTap ==
    /\ pc["telegram"] = "inserted"
    /\ decision' = [decision EXCEPT ![job["telegram"].req] = job["telegram"].out]
    /\ lock' = NoOne
    /\ pc' = [pc EXCEPT !["telegram"] = "flushing"]
    /\ UNCHANGED <<row, job, seen, answered, commands, sweepVars, bus, told, faults>>

\* Mutant: the outbox of the tap is dropped after the commit.
FlushTapForgets ==
    /\ pc["telegram"] = "flushing"
    /\ answered' = answered \cup {job["telegram"]}
    /\ pc' = [pc EXCEPT !["telegram"] = "idle"]
    /\ job' = [job EXCEPT !["telegram"] = NoJob]
    /\ UNCHANGED <<row, decision, lock, seen, commands, sweepVars, bus, told, faults>>

\* run_in_session_scope publishes the outbox and the tap is acknowledged.
FlushTap ==
    /\ pc["telegram"] = "flushing"
    /\ bus' = [bus EXCEPT ![Poller] = @ \cup
                 {[req |-> job["telegram"].req, out |-> job["telegram"].out,
                   action |-> ActionOf(job["telegram"].req)]}]
    /\ answered' = answered \cup {job["telegram"]}
    /\ pc' = [pc EXCEPT !["telegram"] = "idle"]
    /\ job' = [job EXCEPT !["telegram"] = NoJob]
    /\ UNCHANGED <<row, decision, lock, seen, commands, sweepVars, told, faults>>

\* _run_action commits the request's session.
CommitMcp ==
    /\ pc["mcp"] = "inserted"
    /\ decision' = [decision EXCEPT ![job["mcp"].req] = job["mcp"].out]
    /\ lock' = NoOne
    /\ answered' = answered \cup {job["mcp"]}
    /\ pc' = [pc EXCEPT !["mcp"] = "idle"]
    /\ job' = [job EXCEPT !["mcp"] = NoJob]
    /\ UNCHANGED <<row, seen, commands, sweepVars, bus, told, faults>>

\* The dashboard route answers; get_db closes the session without a commit,
\* which rolls the decision back.
EndDashboard ==
    /\ pc["dashboard"] = "inserted"
    /\ lock' = NoOne
    /\ answered' = answered \cup {job["dashboard"]}
    /\ pc' = [pc EXCEPT !["dashboard"] = "idle"]
    /\ job' = [job EXCEPT !["dashboard"] = NoJob]
    /\ UNCHANGED <<row, decision, seen, commands, sweepVars, bus, told, faults>>

\* busy_timeout runs out while somebody else holds the lock, or the commit
\* raises: rollback, no answer.  The dispatcher's key stays recorded.
CommandFails(ch) ==
    /\ \/ pc[ch] = "gated" /\ lock # NoOne
       \/ pc[ch] = "inserted" /\ ch # "dashboard"
    /\ faults < MaxFaults
    /\ faults' = faults + 1
    /\ lock' = IF lock = ch THEN NoOne ELSE lock
    /\ pc' = [pc EXCEPT ![ch] = "idle"]
    /\ job' = [job EXCEPT ![ch] = NoJob]
    /\ UNCHANGED <<row, decision, seen, answered, commands, sweepVars, bus, told>>

-----------------------------------------------------------------------------
(* The timeout sweep, every minute in every daemon.                        *)

\* Mutant: sweep_expired without its anti-join on approval_decisions.
OverdueOrDecided == {r \in Requests : row[r] = "expired"}

\* sweep_expired: the expired requests without a decision.
Overdue == {r \in Requests : row[r] = "expired" /\ decision[r] = "none"}

SweepSelect(d) ==
    /\ sweep[d] = "idle"
    /\ Overdue # {}
    /\ todo' = [todo EXCEPT ![d] = Overdue]
    /\ sweep' = [sweep EXCEPT ![d] = "looping"]
    /\ UNCHANGED <<row, decision, lock, humanVars, batch, outbox, bus, told, faults>>

\* record_decision(outcome="timeout") and publish, for one request of the
\* list (which the query does not order).
SweepInsert(d, r) ==
    /\ sweep[d] = "looping"
    /\ r \in todo[d]
    /\ lock \in {d, NoOne}
    /\ decision[r] = "none"
    /\ lock' = d
    /\ todo' = [todo EXCEPT ![d] = @ \ {r}]
    /\ batch' = [batch EXCEPT ![d] = @ \cup {r}]
    /\ outbox' = [outbox EXCEPT ![d] = @ \cup {r}]
    /\ UNCHANGED <<row, decision, humanVars, sweep, bus, told, faults>>

\* Somebody decided the request since the SELECT: record_decision rolls the
\* WHOLE session back and raises; the job logs the error and returns, so its
\* unit of work commits (nothing) and goes on to publish its outbox.
SweepConflict(d, r) ==
    /\ sweep[d] = "looping"
    /\ r \in todo[d]
    /\ lock \in {d, NoOne}
    /\ decision[r] # "none"
    /\ lock' = NoOne
    /\ todo' = [todo EXCEPT ![d] = {}]
    /\ batch' = [batch EXCEPT ![d] = {}]
    /\ sweep' = [sweep EXCEPT ![d] = "flushing"]
    /\ UNCHANGED <<row, decision, humanVars, outbox, bus, told, faults>>

SweepCommit(d) ==
    /\ sweep[d] = "looping"
    /\ todo[d] = {}
    /\ decision' = [r \in Requests |-> IF r \in batch[d] THEN "timeout" ELSE decision[r]]
    /\ lock' = NoOne
    /\ batch' = [batch EXCEPT ![d] = {}]
    /\ sweep' = [sweep EXCEPT ![d] = "flushing"]
    /\ UNCHANGED <<row, humanVars, todo, outbox, bus, told, faults>>

\* The lock wait runs out, or the commit raises: rollback, outbox dropped.
SweepFails(d) ==
    /\ sweep[d] = "looping"
    /\ todo[d] = {} \/ lock \notin {d, NoOne}
    /\ faults < MaxFaults
    /\ faults' = faults + 1
    /\ lock' = IF lock = d THEN NoOne ELSE lock
    /\ todo' = [todo EXCEPT ![d] = {}]
    /\ batch' = [batch EXCEPT ![d] = {}]
    /\ outbox' = [outbox EXCEPT ![d] = {}]
    /\ sweep' = [sweep EXCEPT ![d] = "idle"]
    /\ UNCHANGED <<row, decision, humanVars, bus, told>>

\* Publish one buffered event.  sweep_expired_requests does not pass the
\* card's action_type on, so the event says "entry" whatever the card is.
SweepFlush(d, r) ==
    /\ sweep[d] = "flushing"
    /\ r \in outbox[d]
    /\ outbox' = [outbox EXCEPT ![d] = @ \ {r}]
    /\ bus' = [bus EXCEPT ![d] = @ \cup
                 {[req |-> r, out |-> "timeout", action |-> "entry"]}]
    /\ UNCHANGED <<row, decision, lock, humanVars, sweep, todo, batch, told, faults>>

SweepEnd(d) ==
    /\ sweep[d] = "flushing"
    /\ outbox[d] = {}
    /\ sweep' = [sweep EXCEPT ![d] = "idle"]
    /\ UNCHANGED <<row, decision, lock, humanVars, todo, batch, outbox, bus, told, faults>>

-----------------------------------------------------------------------------
(* The bridge to trading: one subscription per outcome.                    *)

Signals(d, e) ==
    CASE e.out = "granted" /\ e.action = "entry" ->
            {[at |-> d, req |-> e.req, what |-> "open"]}    \* ProposalApproved
      [] e.out = "granted" /\ e.action = "exit" ->
            {[at |-> d, req |-> e.req, what |-> "close"]}   \* CloseTradeRequested
      [] e.out # "granted" /\ e.action = "entry" ->
            {[at |-> d, req |-> e.req, what |-> "reject"]}  \* ProposalRejected
      [] OTHER -> {}                                        \* exit kept open

Bridge(d, e) ==
    /\ e \in bus[d]
    /\ bus' = [bus EXCEPT ![d] = @ \ {e}]
    /\ told' = told \cup Signals(d, e)
    /\ UNCHANGED <<row, decision, lock, humanVars, sweepVars, faults>>

\* A process dies: its transactions roll back, its memory is lost.
Crash(p) ==
    /\ faults < MaxFaults
    /\ faults' = faults + 1
    /\ LET dead == {ch \in AllChannels : ProcessOf(ch) = p}
       IN  /\ lock' = IF lock \in dead \cup {p} THEN NoOne ELSE lock
           /\ pc' = [ch \in AllChannels |-> IF ch \in dead THEN "idle" ELSE pc[ch]]
           /\ job' = [ch \in AllChannels |-> IF ch \in dead THEN NoJob ELSE job[ch]]
    /\ seen' = [seen EXCEPT ![p] = {}]
    /\ sweep' = [d \in Daemons |-> IF d = p THEN "idle" ELSE sweep[d]]
    /\ todo' = [d \in Daemons |-> IF d = p THEN {} ELSE todo[d]]
    /\ batch' = [d \in Daemons |-> IF d = p THEN {} ELSE batch[d]]
    /\ outbox' = [d \in Daemons |-> IF d = p THEN {} ELSE outbox[d]]
    /\ bus' = [d \in Daemons |-> IF d = p THEN {} ELSE bus[d]]
    /\ UNCHANGED <<row, decision, answered, told, commands>>

Next ==
    \/ \E r \in Requests : Ask(r) \/ Expire(r)
    \/ \E ch \in AllChannels, cmd \in Command : Suppress(ch, cmd) \/ Begin(ch, cmd)
    \/ \E ch \in AllChannels : Insert(ch) \/ AlreadyDecided(ch) \/ CommandFails(ch)
    \/ CommitTap
    \/ FlushTap
    \/ CommitMcp
    \/ EndDashboard
    \/ \E d \in Daemons : SweepSelect(d) \/ SweepCommit(d) \/ SweepFails(d) \/ SweepEnd(d)
    \/ \E d \in Daemons, r \in Requests :
          SweepInsert(d, r) \/ SweepConflict(d, r) \/ SweepFlush(d, r)
    \/ \E d \in Daemons : \E e \in bus[d] : Bridge(d, e)
    \/ \E p \in Processes : Crash(p)

Spec == Init /\ [][Next]_vars

\* Time passes, the cron fires every minute, every coroutine that can go on
\* does.  Nothing is assumed of the humans, and faults are finitely many.
Fairness ==
    /\ \A r \in Requests : WF_vars(Expire(r))
    /\ \A ch \in AllChannels : WF_vars(Insert(ch) \/ AlreadyDecided(ch))
    /\ WF_vars(CommitTap) /\ WF_vars(FlushTap)
    /\ WF_vars(CommitMcp) /\ WF_vars(EndDashboard)
    /\ \A d \in Daemons :
          /\ WF_vars(SweepSelect(d))
          /\ WF_vars(SweepCommit(d) \/ \E r \in Requests :
                        SweepInsert(d, r) \/ SweepConflict(d, r))
          /\ WF_vars(SweepEnd(d) \/ \E r \in Requests : SweepFlush(d, r))
          /\ WF_vars(\E e \in bus[d] : Bridge(d, e))

FairSpec == Spec /\ Fairness

-----------------------------------------------------------------------------
(* Properties.                                                             *)

\* Type invariant.
TypeOK ==
    /\ row \in [Requests -> {"absent", "open", "expired"}]
    /\ decision \in [Requests -> {"none", "granted", "rejected", "timeout"}]
    /\ lock \in AllChannels \cup Daemons \cup {NoOne}
    /\ job \in [AllChannels -> Command \cup {NoJob}]
    /\ pc \in [AllChannels -> {"idle", "gated", "inserted", "flushing"}]
    /\ seen \in [Processes -> SUBSET Command]
    /\ answered \subseteq Command
    /\ sweep \in [Daemons -> {"idle", "looping", "flushing"}]
    /\ todo \in [Daemons -> SUBSET Requests]
    /\ batch \in [Daemons -> SUBSET Requests]
    /\ outbox \in [Daemons -> SUBSET Requests]
    /\ bus \in [Daemons -> SUBSET Event]
    /\ told \subseteq Signal
    /\ commands \in Nat
    /\ faults \in Nat

\* Fail-closed execution (the approved bridge, publish-after-commit): trading
\* is told to open a position only for an entry card, and to close one only
\* for an exit card, whose durable decision is "granted" -- with any number of
\* channels and sweeps racing for the card, rolled-back decisions and crashes.
ActsOnlyOnGrants ==
    \A s \in told :
        s.what # "reject" => /\ decision[s.req] = "granted"
                             /\ s.what = "open" <=> s.req \notin Exits

\* First decision wins: the approval context implements the contract, with
\* "acted on" read off the signals that reached trading.
actedOn == {s.req : s \in {t \in told : t.what # "reject"}}
Contract == INSTANCE ApprovalContract
ImplementsContract == Contract!Spec

\* Every card that runs out is decided: the sweep, the two daemons that run
\* it at the same minute, and a human who answers at the last moment never
\* leave a request pending for ever, whatever rolls back on the way.
EveryCardIsDecided == \A r \in Requests : row[r] = "expired" ~> decision[r] # "none"

\* A granted card is acted on unless a process dies or a commit fails: the
\* trading context is told to open, or close, the trade (prd.md FR14: "System
\* submits approved orders to broker").
GrantedIsActedOn ==
    \A r \in Requests : decision[r] = "granted" ~> (r \in actedOn \/ faults > 0)

\* The comment of record_decision (#30): a late decision is refused so that
\* the bus never carries both the approve/reject event and approval_timeout
\* for the same proposal.
NoSplitOutcome ==
    \A r \in actedOn : \A s \in told : s.req = r => s.what # "reject"

\* The timeout bridge: "An EXIT approval that expired unanswered: position
\* stays open, no ProposalRejected."
ExitNeverRejectsProposal == \A s \in told : s.req \in Exits => s.what # "reject"

\* The dashboard route "records a granted decision": a command answered "ok"
\* leaves a decision behind.
OkMeansDecided == \A cmd \in answered : decision[cmd.req] # "none"
===============================================================================

----------------------------- MODULE LiveGateway -----------------------------
(***************************************************************************)
(* The on-demand gateway of the live daemon                                *)
(* (contexts/trading/brokers/ephemeral_gateway.py, with the adapter's      *)
(* ensure_connected and the part of execute_on_approval_handler that leads *)
(* to the broker call).                                                    *)
(*                                                                         *)
(* The sidecar keeps the gateway up while a lease runs.  An execution      *)
(* leases it, connects and pings, writes its rows -- which may wait for    *)
(* the write lock of another process -- and only then sends its order;     *)
(* Delay after the last order the gateway is released.  Executions come    *)
(* from one bus worker, one at a time.                                     *)
(*                                                                         *)
(* Time is counted in ticks by timers that run down; every await has the   *)
(* bound the code gives it, and code between two awaits takes no time.     *)
(***************************************************************************)
EXTENDS BrokerLink

CONSTANTS
    Orders,      \* approved live entries
    None,        \* no order
    TTL,         \* ttl_seconds of a lease
    Refresh,     \* _LEASE_REFRESH_MARGIN_SECONDS
    Delay,       \* live_gateway_release_delay_secs
    Wait,        \* live_gateway_wait_secs
    LeaseMax,    \* timeout of a webhook call
    PingMax,     \* DEFAULT_HEARTBEAT_TIMEOUT_SECONDS
    SaveMax,     \* busy_timeout of the database
    OrderMax     \* order_timeout_secs

ASSUME GatewayAssumption ==
    /\ None \notin Orders
    /\ {TTL, Refresh, Delay, Wait, LeaseMax, PingMax, SaveMax, OrderMax}
         \subseteq Nat
    /\ TTL > 0

VARIABLES
    lease,      \* external: ticks left until the sidecar's teardown
    window,     \* ticks left until _ready_until, 0 when it is None or past
    timer,      \* ticks left until the delayed release, Idle without one
    releasing,  \* its webhook call is under way
    outcome,    \* of every order
    job,        \* the order being executed
    step,       \* where its execution is
    busy,       \* ticks its current await may still take
    age,        \* ticks since ensure_up read the clock
    wait,       \* ticks left until its deadline
    quiet,      \* history: ticks since an order was placed, up to Delay
    cut,        \* history: a release came after the lease was granted
    begun       \* history: faults when the execution began

timeVars == <<lease, window, timer, quiet, cut>>
jobVars == <<outcome, job, step, busy, age, wait, begun>>
vars == <<adapterVars, timeVars, releasing, jobVars>>

Idle == Delay + 1
Least(a, b) == IF a < b THEN a ELSE b
Less(n) == IF n > 0 THEN n - 1 ELSE 0
Margin == Least(Refresh, TTL \div 2)

Init ==
    /\ LinkInit
    /\ lease = 0 /\ window = 0
    /\ timer = Idle /\ releasing = FALSE
    /\ outcome = [o \in Orders |-> "queued"]
    /\ job = None /\ step = "idle"
    /\ busy = 0 /\ age = 0 /\ wait = 0
    /\ quiet = Delay /\ cut = FALSE /\ begun = 0

-----------------------------------------------------------------------------
(* Executions: _ensure_live_gateway_ready and ensure_up.                   *)

Start(o) ==
    /\ onDemand /\ job = None /\ outcome[o] = "queued"
    /\ job' = o /\ step' = "ensuring" /\ wait' = Wait /\ begun' = faults
    /\ UNCHANGED <<adapterVars, timeVars, releasing, outcome, busy, age>>

EnsureUp ==
    /\ step = "ensuring"
    /\ IF window > 0
       THEN step' = "hooking" /\ UNCHANGED <<busy, age>>
       ELSE step' = "leasing" /\ busy' = LeaseMax /\ age' = 0
    /\ UNCHANGED <<adapterVars, timeVars, releasing, outcome, job, wait,
                   begun>>

\* The sidecar extends the lease; a cold gateway may not be up yet.
LeaseProcessed ==
    /\ step = "leasing"
    /\ lease' = TTL
    /\ cut' = FALSE
    /\ up' \in {up, TRUE}
    /\ step' = IF up' THEN "granted" ELSE "denied"
    /\ UNCHANGED <<onDemand, state, client, shutting, taskVars, catchVars,
                   countVars, faults, window, timer, quiet, releasing,
                   outcome, job, busy, age, wait, begun>>

\* request_lease answers "not ready" for an error of any kind.
LeaseFails ==
    /\ step \in {"leasing", "granted"}
    /\ Fault
    /\ step' = "denied"
    /\ UNCHANGED <<linkVars, taskVars, catchVars, countVars, timeVars,
                   releasing, outcome, job, busy, age, wait, begun>>

\* A bug: the window is counted from the answer.
WindowFromAnswer == TTL - Margin

\* _ready_until counts from the clock read before the request.
WindowLeft == IF age < TTL - Margin THEN TTL - Margin - age ELSE 0

LeaseGranted ==
    /\ step = "granted"
    /\ window' = WindowLeft
    /\ step' = "hooking"
    /\ UNCHANGED <<adapterVars, lease, timer, quiet, cut, releasing, outcome,
                   job, busy, age, wait, begun>>

\* A bug: the deadline is not looked at.
NotReadyForever == step' = "polling" /\ busy' = 1 /\ UNCHANGED <<outcome, job>>

\* ensure_up returned False: drop the window, then poll or fail closed.
NotReady ==
    IF wait > 0
    THEN step' = "polling" /\ busy' = 1 /\ UNCHANGED <<outcome, job>>
    ELSE /\ step' = "idle" /\ job' = None
         /\ outcome' = [outcome EXCEPT ![job] = "refused"]
         /\ UNCHANGED busy

LeaseDenied ==
    /\ step = "denied"
    /\ window' = 0
    /\ NotReady
    /\ UNCHANGED <<adapterVars, lease, timer, quiet, cut, releasing, age,
                   wait, begun>>

Poll ==
    /\ step = "polling" /\ busy = 0
    /\ step' = "ensuring"
    /\ UNCHANGED <<adapterVars, timeVars, releasing, outcome, job, busy, age,
                   wait, begun>>

-----------------------------------------------------------------------------
(* ensure_connected, the hook of ensure_up.                                *)

\* _teardown_connection: no hook, and no shutdown.
Teardown == state' = "disconnected" /\ client' = "none"

\* The connection is confirmed; the proposal and the trade are flushed.
GoSave == step' = "saving" /\ busy' = SaveMax

\* A bug: a connected adapter is trusted without a ping.
HookTrusting ==
    /\ step = "hooking"
    /\ IF state = "connected"
       THEN GoSave /\ UNCHANGED <<state, client>>
       ELSE step' = "connecting" /\ Teardown /\ UNCHANGED busy
    /\ UNCHANGED <<onDemand, up, shutting, taskVars, catchVars, countVars,
                   faults, timeVars, releasing, outcome, job, age, wait,
                   begun>>

Hook ==
    /\ step = "hooking" /\ ~shutting
    /\ IF state = "connected" /\ client # "none"
       THEN step' = "pinging" /\ busy' = PingMax /\ UNCHANGED <<state, client>>
       ELSE step' = "connecting" /\ Teardown /\ UNCHANGED busy
    /\ UNCHANGED <<onDemand, up, shutting, taskVars, catchVars, countVars,
                   faults, timeVars, releasing, outcome, job, age, wait,
                   begun>>

HookRaises ==
    /\ step = "hooking" /\ shutting
    /\ window' = 0
    /\ NotReady
    /\ UNCHANGED <<adapterVars, lease, timer, quiet, cut, releasing, age,
                   wait, begun>>

PingOk ==
    /\ step = "pinging" /\ client = "alive"
    /\ GoSave
    /\ UNCHANGED <<adapterVars, timeVars, releasing, outcome, job, age, wait,
                   begun>>

PingStale ==
    /\ step = "pinging"
    /\ PingFails
    /\ Teardown
    /\ step' = "connecting"
    /\ UNCHANGED <<onDemand, up, shutting, taskVars, catchVars, countVars,
                   timeVars, releasing, outcome, job, busy, age, wait, begun>>

ConnectOnDemand ==
    /\ step = "connecting"
    /\ IF up
       THEN /\ client' = "alive" /\ step' = "verifying" /\ busy' = PingMax
            /\ UNCHANGED <<window, outcome, job>>
       ELSE client' = "dead" /\ window' = 0 /\ NotReady
    /\ UNCHANGED <<onDemand, up, state, shutting, taskVars, catchVars,
                   countVars, faults, lease, timer, quiet, cut, releasing,
                   age, wait, begun>>

VerifyOk ==
    /\ step = "verifying" /\ client = "alive"
    /\ MarkConnected
    /\ GoSave
    /\ UNCHANGED <<onDemand, up, client, shutting, taskVars, catchVars, lost,
                   faults, timeVars, releasing, outcome, job, age, wait,
                   begun>>

VerifyFails ==
    /\ step = "verifying"
    /\ PingFails
    /\ Teardown
    /\ window' = 0
    /\ NotReady
    /\ UNCHANGED <<onDemand, up, shutting, taskVars, catchVars, countVars,
                   lease, timer, quiet, cut, releasing, age, wait, begun>>

-----------------------------------------------------------------------------
(* The rows, the broker call and the delayed release.                      *)

Finish(result) ==
    /\ outcome' = [outcome EXCEPT ![job] = result]
    /\ job' = None /\ step' = "idle"

\* The flush has the write lock; nobody looks at the link again.
Saved ==
    /\ step = "saving"
    /\ step' = "placing" /\ busy' = OrderMax
    /\ UNCHANGED <<adapterVars, timeVars, releasing, outcome, job, age, wait,
                   begun>>

\* The lock is not to be had, or the flush raises: the handler fails, its
\* rows are rolled back and no order is sent.
SaveFails ==
    /\ step = "saving"
    /\ Fault
    /\ Finish("failed")
    /\ UNCHANGED <<linkVars, taskVars, catchVars, countVars, timeVars,
                   releasing, busy, age, wait, begun>>

\* A bug: a release that is pending stays.
ScheduleReleaseOnce ==
    /\ timer' = IF timer = Idle THEN Delay ELSE timer
    /\ releasing' = releasing

\* schedule_release cancels the release that is pending or under way; a
\* webhook call that was cancelled may have reached the sidecar.
ScheduleRelease == timer' = Delay /\ releasing' \in {FALSE, releasing}

\* place_order returned and the rows are written.
Placed ==
    /\ step = "placing" /\ client = "alive"
    /\ Finish("sent")
    /\ ScheduleRelease
    /\ quiet' = 0
    /\ UNCHANGED <<adapterVars, lease, window, cut, busy, age, wait, begun>>

\* An error of the adapter, or the timeout that leaves the order pending: no
\* release is scheduled.
PlaceFails ==
    /\ step = "placing"
    /\ PingFails
    /\ Finish("failed")
    /\ UNCHANGED <<linkVars, taskVars, catchVars, countVars, timeVars,
                   releasing, busy, age, wait, begun>>

\* _delayed_release after its sleep.
ReleaseDue ==
    /\ timer = 0
    /\ timer' = Idle
    /\ window' = 0
    /\ releasing' = TRUE
    /\ UNCHANGED <<adapterVars, lease, quiet, cut, jobVars>>

Down == /\ up' = FALSE
        /\ client' = IF client = "alive" THEN "dead" ELSE client

\* The sidecar stops the gateway, whoever uses it.
ReleaseProcessed ==
    /\ releasing
    /\ releasing' = FALSE
    /\ lease' = 0 /\ cut' = TRUE
    /\ Down
    /\ UNCHANGED <<onDemand, state, shutting, taskVars, catchVars, countVars,
                   faults, window, timer, quiet, jobVars>>

ReleaseFails ==
    /\ releasing
    /\ Fault
    /\ releasing' = FALSE
    /\ UNCHANGED <<linkVars, taskVars, catchVars, countVars, timeVars,
                   jobVars>>

-----------------------------------------------------------------------------
\* A tick passes in a sleep or within the bound of an await.  A lease that
\* runs out takes the gateway down.
Tick ==
    /\ onDemand
    /\ timer # 0
    /\ \/ job = None
       \/ /\ step \in {"leasing", "granted", "denied", "polling", "pinging",
                       "verifying", "saving", "placing"}
          /\ busy > 0
    /\ lease' = Less(lease)
    /\ IF lease = 1 THEN Down ELSE UNCHANGED <<up, client>>
    /\ window' = Less(window)
    /\ timer' = IF timer = Idle THEN Idle ELSE timer - 1
    /\ quiet' = Least(quiet + 1, Delay)
    /\ busy' = Less(busy) /\ wait' = Less(wait)
    /\ age' = IF job = None THEN 0 ELSE Least(age + 1, LeaseMax)
    /\ UNCHANGED <<onDemand, state, shutting, taskVars, catchVars, countVars,
                   faults, cut, releasing, outcome, job, step, begun>>

Execution ==
    \/ \E o \in Orders : Start(o)
    \/ EnsureUp \/ LeaseProcessed \/ LeaseGranted \/ LeaseDenied \/ Poll
    \/ Hook \/ HookRaises \/ PingOk \/ PingStale \/ ConnectOnDemand
    \/ VerifyOk \/ VerifyFails \/ Saved \/ Placed \/ PlaceFails

Release == ReleaseDue \/ ReleaseProcessed

GatewayVars == <<timeVars, releasing, jobVars>>

Next ==
    \/ LinkNext /\ UNCHANGED GatewayVars
    \/ Execution \/ LeaseFails \/ SaveFails
    \/ Release \/ ReleaseFails
    \/ Tick

\* Tasks of the event loop run, awaits end, time passes.
Fairness ==
    /\ WF_vars(LinkTasks /\ UNCHANGED GatewayVars)
    /\ WF_vars(Execution) /\ WF_vars(Release) /\ WF_vars(Tick)

Spec == Init /\ [][Next]_vars /\ Fairness

-----------------------------------------------------------------------------
Steps == {"idle", "ensuring", "leasing", "granted", "denied", "polling",
          "hooking", "pinging", "connecting", "verifying", "saving",
          "placing"}

\* The variables have the values the code gives them.
TypeOK ==
    /\ LinkTypeOK
    /\ lease \in 0..TTL /\ window \in 0..TTL
    /\ timer \in 0..Idle /\ quiet \in 0..Delay
    /\ busy \in Nat /\ age \in Nat /\ wait \in 0..Wait
    /\ releasing \in BOOLEAN /\ cut \in BOOLEAN /\ begun \in 0..MaxFaults
    /\ outcome \in [Orders -> {"queued", "sent", "failed", "refused"}]
    /\ job \in Orders \cup {None} /\ step \in Steps
    /\ (job = None) <=> (step = "idle")

\* While the coordinator trusts its window the sidecar's lease has at least
\* the refresh margin to run, unless a release was processed after the grant.
WindowInsideLease == window > 0 /\ ~cut => lease >= window + Margin

\* A release is sent only when no order was placed for the whole delay.
ReleasedWhenQuiet == [][releasing' /\ ~releasing => quiet = Delay]_vars

\* An order that was allowed fails only by what happened while it was
\* executed: a loss or an error, the shutdown, or the end of the lease.  A link
\* that broke before is found out by ensure_connected and opened anew.
FailsToALoss ==
    [][\A o \in Orders : outcome'[o] = "failed" /\ outcome[o] # "failed"
         => faults' > begun \/ shutting \/ cut \/ lease = 0]_vars

\* The gateway is leased for as long as an order is under way.  The code
\* breaks it: a pending release does not wait for the next order.
OrderInsideLease == step = "placing" => lease > 0

\* Every approved live entry is sent, fails or is refused.
EveryOrderEnds ==
    \A o \in Orders : onDemand /\ outcome[o] = "queued" ~> outcome[o] # "queued"

\* The owner's mobile session is always given back: a lease ends.
LeaseEnds == lease > 0 ~> lease = 0
=============================================================================

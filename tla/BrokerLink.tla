------------------------------ MODULE BrokerLink ------------------------------
(***************************************************************************)
(* The connection of a daemon to its IBKR gateway                          *)
(* (contexts/trading/brokers/ibkr_adapter.py over shared/heartbeat.py).    *)
(*                                                                         *)
(* A standing link is opened at boot; a heartbeat task pings it, notices   *)
(* its loss and hands over to a reconnect task that tries MaxAttempts      *)
(* times, catches up with the executions of the outage and hands back.     *)
(* An on-demand link (module LiveGateway) starts neither task.             *)
(*                                                                         *)
(* The daemon builds the adapter without a bus: emitting an event is a log *)
(* line, never an await, so the code between two broker calls is one step. *)
(***************************************************************************)
EXTENDS Integers, FiniteSets

CONSTANTS
    Execs,        \* executions of resting orders at the broker
    MaxAttempts,  \* MAX_RECONNECT_ATTEMPTS
    MaxFaults     \* bound: losses, slow pings, rejected credentials

ASSUME LinkAssumption ==
    /\ MaxAttempts \in Nat \ {0}
    /\ MaxFaults \in Nat

VARIABLES
    onDemand,   \* the daemon trades live through an ephemeral gateway
    up,         \* external: the gateway accepts connections
    state,      \* ConnectionState
    client,     \* the adapter's _client: none, or with its socket
    shutting,   \* _shutting_down
    hb,         \* _heartbeat_task runs
    rc,         \* where _reconnect_task is
    attempt,    \* its attempt
    executed,   \* external: executions so far
    since,      \* those older than _last_disconnect_at
    known,      \* _known_exec_ids
    told,       \* history: how often an execution was announced
    opened,     \* history: mark_connected calls that opened the link
    lost,       \* history: _on_disconnect calls
    gaveUp,     \* history: _emit_killswitch was called
    faults

linkVars == <<onDemand, up, state, client, shutting>>
taskVars == <<hb, rc, attempt, gaveUp>>
catchVars == <<executed, since, known, told>>
countVars == <<opened, lost>>
adapterVars == <<linkVars, taskVars, catchVars, countVars, faults>>

LinkInit ==
    /\ onDemand \in BOOLEAN
    /\ up \in BOOLEAN
    /\ onDemand => ~up
    /\ state = "disconnected" /\ client = "none"
    /\ shutting = FALSE
    /\ hb = FALSE /\ rc = "none" /\ attempt = 0
    /\ executed = {} /\ since = {} /\ known = {}
    /\ told = [e \in Execs |-> 0]
    /\ opened = 0 /\ lost = 0
    /\ gaveUp = FALSE
    /\ faults = 0

Fault == faults < MaxFaults /\ faults' = faults + 1

-----------------------------------------------------------------------------
(* The transitions of HeartbeatMixin.                                      *)

MarkConnected ==
    /\ state' = "connected"
    /\ opened' = opened + 1

\* A bug: the hook runs whenever it is called.
MarkDisconnectedAlways ==
    /\ state' = "disconnected"
    /\ since' = executed
    /\ lost' = lost + 1

\* Idempotent: _on_disconnect runs only when the state changes.
MarkDisconnected ==
    /\ state' = "disconnected"
    /\ IF state = "disconnected"
       THEN UNCHANGED <<since, lost>>
       ELSE since' = executed /\ lost' = lost + 1

-----------------------------------------------------------------------------
(* The standing link.                                                      *)

\* connect, at boot.
Connect ==
    /\ ~onDemand /\ ~shutting /\ client = "none" /\ up
    /\ client' = "alive"
    /\ MarkConnected
    /\ hb' = TRUE
    /\ UNCHANGED <<onDemand, up, shutting, rc, attempt, gaveUp, catchVars,
                   lost, faults>>

\* A ping answers in time only over a live socket, and may even then not.
PingFails ==
    \/ client # "alive" /\ UNCHANGED faults
    \/ client = "alive" /\ Fault

\* A bug: the loop goes on after handing over.
HeartbeatLoopStays ==
    /\ hb
    /\ PingFails
    /\ MarkDisconnected
    /\ rc' = "spawned"
    /\ UNCHANGED <<onDemand, up, client, shutting, hb, attempt, gaveUp,
                   executed, known, told, opened>>

\* An iteration of _heartbeat_loop that fails.
HeartbeatLoop ==
    /\ hb
    /\ PingFails
    /\ MarkDisconnected
    /\ hb' = FALSE
    /\ rc' = "spawned"
    /\ UNCHANGED <<onDemand, up, client, shutting, attempt, gaveUp, executed,
                   known, told, opened>>

RcStart ==
    /\ rc = "spawned"
    /\ rc' = "waiting"
    /\ attempt' = 1
    /\ state' = "reconnecting"
    /\ UNCHANGED <<onDemand, up, client, shutting, hb, gaveUp, catchVars,
                   countVars, faults>>

\* A bug: after the last attempt the task just ends.
NextAttemptSilently ==
    IF attempt < MaxAttempts
    THEN rc' = "waiting" /\ attempt' = attempt + 1 /\ UNCHANGED gaveUp
    ELSE rc' = "none" /\ UNCHANGED <<attempt, gaveUp>>

\* The next attempt of the loop; after the last one the kill switch is asked.
NextAttempt ==
    IF attempt < MaxAttempts
    THEN rc' = "waiting" /\ attempt' = attempt + 1 /\ UNCHANGED gaveUp
    ELSE rc' = "none" /\ gaveUp' = TRUE /\ UNCHANGED attempt

\* _connect_client after the back-off.
RcConnect ==
    /\ rc = "waiting"
    /\ \/ /\ up
          /\ client' = "alive" /\ rc' = "verifying"
          /\ UNCHANGED <<attempt, gaveUp, faults>>
       \/ /\ ~up
          /\ client' = "dead"
          /\ NextAttempt
          /\ UNCHANGED faults
       \/ /\ up /\ Fault           \* BrokerAuthError
          /\ client' = "dead" /\ rc' = "none" /\ gaveUp' = TRUE
          /\ UNCHANGED attempt
    /\ UNCHANGED <<onDemand, up, state, shutting, hb, catchVars, countVars>>

RcVerify ==
    /\ rc = "verifying"
    /\ \/ /\ client = "alive"
          /\ MarkConnected
          /\ rc' = "catching_up"
          /\ UNCHANGED <<attempt, gaveUp, faults>>
       \/ /\ PingFails
          /\ NextAttempt
          /\ UNCHANGED <<state, opened>>
    /\ UNCHANGED <<onDemand, up, client, shutting, hb, catchVars, lost>>

\* A bug: what was announced is not remembered.
AnnounceForgetful(E) ==
    /\ known' = known
    /\ told' = [e \in Execs |-> IF e \in E THEN told[e] + 1 ELSE told[e]]

Announce(E) ==
    /\ known' = known \cup E
    /\ told' = [e \in Execs |-> IF e \in E \ known THEN told[e] + 1
                                ELSE told[e]]

\* _post_reconnect_reconciliation.  A failure in it ends the task: the link
\* stays connected with neither task.
RcCatchUp ==
    /\ rc = "catching_up"
    /\ IF client = "alive"
       THEN Announce(executed \ since) /\ rc' = "observing"
       ELSE rc' = "none" /\ UNCHANGED <<known, told>>
    /\ UNCHANGED <<linkVars, hb, attempt, gaveUp, executed, since, countVars,
                   faults>>

RcObserve ==
    /\ rc = "observing"
    /\ rc' = "none"
    /\ hb' = (client = "alive")
    /\ UNCHANGED <<linkVars, attempt, gaveUp, catchVars, countVars, faults>>

\* disconnect, at the daemon's shutdown.
Disconnect ==
    /\ ~shutting
    /\ shutting' = TRUE
    /\ hb' = FALSE /\ rc' = "none"
    /\ client' = IF client = "none" THEN "none" ELSE "dead"
    /\ MarkDisconnected
    /\ UNCHANGED <<onDemand, up, attempt, gaveUp, executed, known, told,
                   opened, faults>>

-----------------------------------------------------------------------------
(* The broker's side.                                                      *)

Execute(e) ==
    /\ ~onDemand /\ e \notin executed
    /\ executed' = executed \cup {e}
    /\ UNCHANGED <<linkVars, taskVars, since, known, told, countVars, faults>>

\* The gateway goes away, or only the socket does.
Lose ==
    /\ Fault
    /\ client = "alive" \/ (up /\ ~onDemand)
    /\ client' = IF client = "alive" THEN "dead" ELSE client
    /\ up' \in IF onDemand THEN {up} ELSE {FALSE, up}
    /\ UNCHANGED <<onDemand, state, shutting, taskVars, catchVars, countVars>>

Recover ==
    /\ ~onDemand /\ ~up
    /\ up' = TRUE
    /\ UNCHANGED <<onDemand, state, client, shutting, taskVars, catchVars,
                   countVars, faults>>

LinkTasks == HeartbeatLoop \/ RcStart \/ RcConnect \/ RcVerify \/ RcCatchUp
             \/ RcObserve

LinkNext ==
    \/ Connect \/ LinkTasks \/ Disconnect \/ Lose \/ Recover
    \/ \E e \in Execs : Execute(e)

-----------------------------------------------------------------------------
LinkTypeOK ==
    /\ onDemand \in BOOLEAN /\ up \in BOOLEAN /\ shutting \in BOOLEAN
    /\ state \in {"connected", "reconnecting", "disconnected"}
    /\ client \in {"none", "alive", "dead"}
    /\ hb \in BOOLEAN /\ gaveUp \in BOOLEAN
    /\ rc \in {"none", "spawned", "waiting", "verifying", "catching_up",
               "observing"}
    /\ attempt \in 0..MaxAttempts
    /\ executed \subseteq Execs /\ since \subseteq executed
    /\ known \subseteq executed
    /\ told \in [Execs -> Nat]
    /\ opened \in Nat /\ lost \in Nat /\ faults \in 0..MaxFaults

\* A link is watched by one task at a time: the heartbeat hands over to the
\* reconnect task and back, a link that is being retried is never called
\* connected, and after the shutdown or after giving up nobody is left.
OneMonitor ==
    /\ ~(hb /\ rc # "none")
    /\ hb => state = "connected"
    /\ rc \in {"waiting", "verifying"} => state = "reconnecting"
    /\ rc \in {"catching_up", "observing"} => state = "connected"
    /\ shutting \/ gaveUp => ~hb /\ rc = "none"

\* However often the link breaks, an execution is announced at most once, and
\* once the link is watched again every execution since its loss was noticed
\* and until the catch-up is known.
CatchUpIsExact ==
    [][/\ \A e \in Execs : told'[e] <= 1
       /\ rc = "catching_up" /\ rc' = "observing"
            => executed \subseteq since \cup known']_adapterVars

\* The loss hook runs at most once for every time the link was opened, and
\* once more only when the daemon stops during the retries.
LossIsToldOnce ==
    /\ lost > opened => lost = opened + 1 /\ shutting /\ attempt > 0
    /\ state = "connected" => lost < opened

\* A link that is connected has a task that will notice its loss.  The code
\* breaks it: a failure in the catch-up ends the reconnect task.
ConnectedIsMonitored ==
    ~onDemand /\ state = "connected"
        => hb \/ rc \in {"catching_up", "observing"}

\* Every outage that was noticed ends: the link is connected again, or the
\* adapter has given up and asked for the kill switch, or the daemon stops.
OutageEnds ==
    rc # "none" ~> state = "connected" \/ gaveUp \/ shutting
=============================================================================

---------------------------- MODULE SwitchContract ----------------------------
(***************************************************************************)
(* What the kill switch promises the rest of iguanatrader, whatever number *)
(* of daemons, terminals and chats throw it at once: one switch with one   *)
(* history.  Every command that commits is in the history for good and     *)
(* takes effect as it enters it; the switch trips itself at most once a    *)
(* day; and only a command that changed it may be announced.               *)
(***************************************************************************)
EXTENDS Integers, Sequences

CONSTANTS
    FirstTick,
    DayLen        \* ticks in a day

VARIABLES
    now,
    log,          \* the events, in order of commit
    active,
    announced     \* the events subscribers heard of

vars == <<now, log, active, announced>>

Day(t) == t \div DayLen

Init ==
    /\ now = FirstTick
    /\ log = <<>>
    /\ active = FALSE
    /\ announced = {}

Tick ==
    /\ now' = now + 1
    /\ UNCHANGED <<log, active, announced>>

\* An event was stamped now or earlier, not always after the one before it.
Throw(transition, source, at) ==
    /\ at \in FirstTick..now
    /\ log' = Append(log, [transition |-> transition, source |-> source, at |-> at])
    /\ active' = (transition = "activated")
    /\ \/ UNCHANGED announced
       \/ active' # active /\ announced' = announced \cup {Len(log) + 1}
    /\ UNCHANGED now

\* The first cap breach of a day.
Trip(at) ==
    /\ \A i \in DOMAIN log :
          log[i].source = "automatic_cap_breach" => Day(log[i].at) < Day(at)
    /\ Throw("activated", "automatic_cap_breach", at)

\* A human halts or resumes.
Command(transition, source, at) ==
    /\ transition \in {"activated", "deactivated"}
    /\ source \in {"cli", "channel_command"}
    /\ Throw(transition, source, at)

\* Nothing but an event of the log, or the clock, changes anything.
Next ==
    \/ Tick
    \/ /\ log' # log
       /\ \E at \in FirstTick..now :
             \/ Trip(at)
             \/ \E transition \in {"activated", "deactivated"},
                   source \in {"cli", "channel_command"} :
                   Command(transition, source, at)

Spec == Init /\ [][Next]_vars
===============================================================================

----------------------------- MODULE BusContract -----------------------------
(***************************************************************************)
(* What the message bus promises the contexts that publish on it and the   *)
(* subscribers, whatever handlers fail, tasks are cancelled or processes   *)
(* die: an event is kept back until its unit of work has committed, is     *)
(* handed to the subscribers in one step and never again, and every        *)
(* subscriber goes through what it was handed one event at a time, in      *)
(* order.  Delivery is at most once: what a process loses stays lost.      *)
(***************************************************************************)
EXTENDS Naturals, Sequences

CONSTANT Subs      \* the subscribers

VARIABLES
    nextId,     \* identity of the next event
    open,       \* events of units of work that have not committed
    due,        \* committed events that were not handed over yet
    waiting,    \* for each subscriber, the events handed over, oldest first
    handling,   \* for each subscriber, the event being handled, if any
    ended       \* for each subscriber, what it handled, or was spared

vars == <<nextId, open, due, waiting, handling, ended>>

Init ==
    /\ nextId = 0
    /\ open = {} /\ due = {}
    /\ waiting = [s \in Subs |-> <<>>]
    /\ handling = [s \in Subs |-> {}]
    /\ ended = [s \in Subs |-> {}]

Publish ==
    /\ nextId' = nextId + 1
    /\ open' = open \cup {nextId}
    /\ UNCHANGED <<due, waiting, handling, ended>>

\* A unit of work commits all it published.
Commit(E) ==
    /\ E \subseteq open
    /\ open' = open \ E
    /\ due' = due \cup E
    /\ UNCHANGED <<nextId, waiting, handling, ended>>

\* An event is queued for some subscribers and spared others that know it.
HandOver(id, to, spared) ==
    /\ to \cap spared = {}
    /\ waiting' = [s \in Subs |-> IF s \in to THEN Append(waiting[s], id)
                                  ELSE waiting[s]]
    /\ ended' = [s \in Subs |-> IF s \in spared THEN ended[s] \cup {id}
                                ELSE ended[s]]
    /\ UNCHANGED handling

FanOut(id, to, spared) ==
    /\ id \in due
    /\ due' = due \ {id}
    /\ HandOver(id, to, spared)
    /\ UNCHANGED <<nextId, open>>

\* Outside a unit of work nothing is kept back.
PublishNow(to, spared) ==
    /\ nextId' = nextId + 1
    /\ HandOver(nextId, to, spared)
    /\ UNCHANGED <<open, due>>

Take(s) ==
    /\ handling[s] = {}
    /\ waiting[s] # <<>>
    /\ handling' = [handling EXCEPT ![s] = {Head(waiting[s])}]
    /\ waiting' = [waiting EXCEPT ![s] = Tail(@)]
    /\ UNCHANGED <<nextId, open, due, ended>>

\* The handler returns, or raises and takes what it published with it.
Finish(s, E) ==
    /\ handling[s] # {}
    /\ handling' = [handling EXCEPT ![s] = {}]
    /\ ended' = [ended EXCEPT ![s] = @ \cup handling[s]]
    /\ E \subseteq open
    /\ open' = open \ E
    /\ UNCHANGED <<nextId, due, waiting>>

\* Subscribers go away with all they were handed, and publishers with all
\* they held: a rollback, a cancelled task, a crash.
Drop(S, E) ==
    /\ E \subseteq open \cup due
    /\ open' = open \ E
    /\ due' = due \ E
    /\ waiting' = [s \in Subs |-> IF s \in S THEN <<>> ELSE waiting[s]]
    /\ handling' = [s \in Subs |-> IF s \in S THEN {} ELSE handling[s]]
    /\ UNCHANGED <<nextId, ended>>

Next ==
    \/ Publish
    \/ \E E \in SUBSET open : Commit(E)
    \/ \E to, spared \in SUBSET Subs :
          PublishNow(to, spared) \/ \E id \in due : FanOut(id, to, spared)
    \/ \E s \in Subs : Take(s) \/ \E E \in SUBSET open : Finish(s, E)
    \/ \E S \in SUBSET Subs, E \in SUBSET (open \cup due) : Drop(S, E)

Spec == Init /\ [][Next]_vars
===============================================================================

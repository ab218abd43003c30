------------------------------ MODULE MessageBus ------------------------------
(***************************************************************************)
(* The in-process publish/subscribe bus of iguanatrader                    *)
(* (shared/messagebus.py) together with the unit of work that surrounds    *)
(* every delivery and every cron tick (shared/contextvars.py).             *)
(*                                                                         *)
(* A CONTEXT is a coroutine that runs units of work: the worker task of a  *)
(* subscription, or a cron job.  A unit of work buffers what it publishes  *)
(* in an outbox, commits or rolls back its session, and only after a       *)
(* commit fans the outbox out to the subscribers' queues.                  *)
(*                                                                         *)
(* Every await that suspends in the code is a step boundary here.  The     *)
(* fan-out of each outbox entry is a step of its own: asyncio may not in   *)
(* fact suspend there (the queues are unbounded), so the model allows a    *)
(* few interleavings more than the program has, never fewer.               *)
(***************************************************************************)
EXTENDS Naturals, Sequences, FiniteSets

CONSTANTS
    Subs,         \* subscriptions (one queue, one worker task each)
    Jobs,         \* cron jobs that publish from a unit of work of their own
    Topics,       \* event types
    Keys,         \* idempotency keys
    NoKey,        \* an event whose idempotency_key is None
    NoEvent,      \* the worker holds no event
    TopicOf,      \* Subscription.event_type
    Idempotent,   \* the subscriptions registered with idempotent=True
    DedupWindow,  \* Subscription.dedup_window
    MaxEvents,    \* bound: events published over the behaviour
    MaxCrashes    \* bound: process crashes

ASSUME BusAssumption ==
    /\ Subs \cap Jobs = {}
    /\ NoKey \notin Keys
    /\ TopicOf \in [Subs -> Topics]
    /\ Idempotent \subseteq Subs
    /\ DedupWindow \in Nat \ {0}
    /\ MaxEvents \in Nat
    /\ MaxCrashes \in Nat

Contexts == Subs \cup Jobs

Event == [id : Nat, topic : Topics, key : Keys \cup {NoKey}]

\* An event as it stands in a queue.  "seen" is history: how many deliveries
\* the subscriber had finished cleanly when the event was enqueued.
Entry == [id : Nat, key : Keys \cup {NoKey}, seen : Nat]

ASSUME NoEventAssumption == NoEvent \notin Entry

VARIABLES
    closed,    \* MessageBus._closed
    routed,    \* the subscriptions in MessageBus._subscriptions
    queue,     \* Subscription.queue
    current,   \* the event whose delivery the worker is running
    recent,    \* Subscription._recent_keys, oldest first
    pc,        \* where each context is in its unit of work
    outbox,    \* publish_outbox_var of the context
    nextId,    \* identity of the next event
    crashes,   \* process crashes so far
    durable,   \* history: events whose unit of work has committed
    clean,     \* history: entries a subscription handled without an exception
    settled,   \* history: events a subscription handled, failed or suppressed
    lost       \* history: durable events whose fan-out was cut short

busVars == <<closed, routed, queue, current, recent>>
uowVars == <<pc, outbox, nextId>>
histVars == <<durable, clean, settled, lost>>
vars == <<busVars, uowVars, histVars, crashes>>

Ids(s) == {s[i].id : i \in DOMAIN s}

-----------------------------------------------------------------------------
(* Helpers of Subscription.                                                *)

HasSeen(s, key) == \E i \in DOMAIN recent[s] : recent[s][i] = key

\* Mutant: eviction one key too early.
RecordKeyEvictsEarly(s, key) ==
    IF key = NoKey \/ s \notin Idempotent \/ HasSeen(s, key)
    THEN recent[s]
    ELSE LET longer == Append(recent[s], key)
         IN  IF Len(longer) >= DedupWindow THEN Tail(longer) ELSE longer

\* _record_key: append a new key and evict the oldest one beyond the window.
\* One key is added at a time, so at most one is evicted.
RecordKey(s, key) ==
    IF key = NoKey \/ s \notin Idempotent \/ HasSeen(s, key)
    THEN recent[s]
    ELSE LET longer == Append(recent[s], key)
         IN  IF Len(longer) > DedupWindow THEN Tail(longer) ELSE longer

Suppressed(s, e) == s \in Idempotent /\ e.key # NoKey /\ HasSeen(s, e.key)

\* publish outside an outbox: every routed subscription of the event's type
\* gets the event, unless it is idempotent and has seen the key.
Receivers(e) == {s \in routed : TopicOf[s] = e.topic}

FanOut(e) ==
    /\ queue' = [s \in Subs |->
                   IF s \in Receivers(e) /\ ~Suppressed(s, e)
                   THEN Append(queue[s], [id |-> e.id, key |-> e.key,
                                          seen |-> Len(clean[s])])
                   ELSE queue[s]]
    /\ settled' = [s \in Subs |->
                     IF s \in Receivers(e) /\ Suppressed(s, e)
                     THEN settled[s] \cup {e.id} ELSE settled[s]]

-----------------------------------------------------------------------------
Init ==
    /\ closed = FALSE
    /\ routed = {}
    /\ queue = [s \in Subs |-> <<>>]
    /\ current = [s \in Subs |-> NoEvent]
    /\ recent = [s \in Subs |-> <<>>]
    /\ pc = [c \in Contexts |-> "idle"]
    /\ outbox = [c \in Contexts |-> <<>>]
    /\ nextId = 0
    /\ crashes = 0
    /\ durable = {}
    /\ clean = [s \in Subs |-> <<>>]
    /\ settled = [s \in Subs |-> {}]
    /\ lost = {}

\* subscribe: a fresh queue, an empty dedup window and a worker task.
Subscribe(s) ==
    /\ ~closed
    /\ s \notin routed
    /\ routed' = routed \cup {s}
    /\ recent' = [recent EXCEPT ![s] = <<>>]
    /\ clean' = [clean EXCEPT ![s] = <<>>]
    /\ UNCHANGED <<closed, queue, current, uowVars, durable, settled, lost, crashes>>

\* Cancel the worker tasks of a set of subscriptions: a running unit of work
\* rolls back, a committed one that has not fanned out yet never will, and
\* nobody drains the queue any more.
Cancel(S) ==
    /\ queue' = [s \in Subs |-> IF s \in S THEN <<>> ELSE queue[s]]
    /\ current' = [s \in Subs |-> IF s \in S THEN NoEvent ELSE current[s]]
    /\ pc' = [c \in Contexts |-> IF c \in S THEN "idle" ELSE pc[c]]
    /\ outbox' = [c \in Contexts |-> IF c \in S THEN <<>> ELSE outbox[c]]
    /\ lost' = lost \cup UNION {Ids(outbox[c]) \cap durable : c \in S}

\* unsubscribe: an SSE client disconnects.
Unsubscribe(s) ==
    /\ s \in routed
    /\ routed' = routed \ {s}
    /\ Cancel({s})
    /\ UNCHANGED <<closed, recent, nextId, durable, clean, settled, crashes>>

\* aclose: the daemon shuts down; every worker is cancelled.
Close ==
    /\ ~closed
    /\ closed' = TRUE
    /\ routed' = {}
    /\ Cancel(Subs)
    /\ UNCHANGED <<recent, nextId, durable, clean, settled, crashes>>

\* The process dies and is started again: memory is gone, the database is not.
Crash ==
    /\ crashes < MaxCrashes
    /\ crashes' = crashes + 1
    /\ closed' = FALSE
    /\ routed' = {}
    /\ Cancel(Contexts)
    /\ recent' = [s \in Subs |-> <<>>]
    /\ clean' = [s \in Subs |-> <<>>]
    /\ UNCHANGED <<nextId, durable, settled>>

-----------------------------------------------------------------------------
\* The worker takes the next event and opens a unit of work for its handler.
Take(s) ==
    /\ s \in routed
    /\ pc[s] = "idle"
    /\ queue[s] # <<>>
    /\ current' = [current EXCEPT ![s] = Head(queue[s])]
    /\ queue' = [queue EXCEPT ![s] = Tail(queue[s])]
    /\ pc' = [pc EXCEPT ![s] = "running"]
    /\ UNCHANGED <<closed, routed, recent, outbox, nextId, histVars, crashes>>

\* A cron tick opens a unit of work (run_in_session_scope around the tick).
StartJob(j) ==
    /\ pc[j] = "idle"
    /\ pc' = [pc EXCEPT ![j] = "running"]
    /\ UNCHANGED <<busVars, outbox, nextId, histVars, crashes>>

\* Mutant: no outbox, a unit of work publishes before it commits.
BufferedPublishAtOnce(c, topic, key) ==
    /\ pc[c] = "running"
    /\ ~closed
    /\ nextId < MaxEvents
    /\ FanOut([id |-> nextId, topic |-> topic, key |-> key])
    /\ nextId' = nextId + 1
    /\ UNCHANGED <<closed, routed, current, recent, pc, outbox, durable, clean, lost,
                   crashes>>

\* publish inside a unit of work: the event is buffered in the outbox.
BufferedPublish(c, topic, key) ==
    /\ pc[c] = "running"
    /\ ~closed
    /\ nextId < MaxEvents
    /\ outbox' = [outbox EXCEPT
                    ![c] = Append(@, [id |-> nextId, topic |-> topic, key |-> key])]
    /\ nextId' = nextId + 1
    /\ UNCHANGED <<busVars, pc, histVars, crashes>>

\* publish with no outbox bound (a request handler's bus): delivered now.
DirectPublish(topic, key) ==
    /\ ~closed
    /\ nextId < MaxEvents
    /\ FanOut([id |-> nextId, topic |-> topic, key |-> key])
    /\ nextId' = nextId + 1
    /\ durable' = durable \cup {nextId}
    /\ UNCHANGED <<closed, routed, current, recent, pc, outbox, clean, lost, crashes>>

\* The handler returned and the session committed.
Commit(c) ==
    /\ pc[c] = "running"
    /\ pc' = [pc EXCEPT ![c] = "flushing"]
    /\ durable' = durable \cup Ids(outbox[c])
    /\ UNCHANGED <<busVars, outbox, nextId, clean, settled, lost, crashes>>

\* Mutant: an exception of a handler ends its worker task.
FailEndsWorker(c) ==
    /\ pc[c] = "running"
    /\ pc' = [pc EXCEPT ![c] = "dead"]
    /\ outbox' = [outbox EXCEPT ![c] = <<>>]
    /\ current' = [s \in Subs |-> IF s = c THEN NoEvent ELSE current[s]]
    /\ settled' = [s \in Subs |-> IF s = c THEN settled[s] \cup {current[s].id}
                                           ELSE settled[s]]
    /\ UNCHANGED <<closed, routed, queue, recent, nextId, durable, clean, lost, crashes>>

\* The handler (or the commit) raised, or a publish found the bus closed:
\* rollback, the outbox is dropped, the worker logs and goes on.  No key is
\* recorded.
Fail(c) ==
    /\ pc[c] = "running"
    /\ pc' = [pc EXCEPT ![c] = "idle"]
    /\ outbox' = [outbox EXCEPT ![c] = <<>>]
    /\ current' = [s \in Subs |-> IF s = c THEN NoEvent ELSE current[s]]
    /\ settled' = [s \in Subs |-> IF s = c THEN settled[s] \cup {current[s].id}
                                           ELSE settled[s]]
    /\ UNCHANGED <<closed, routed, queue, recent, nextId, durable, clean, lost, crashes>>

\* Mutant: an event stays in the outbox after it was published.
FlushKeepsEvent(c) ==
    /\ pc[c] = "flushing"
    /\ outbox[c] # <<>>
    /\ ~closed
    /\ FanOut(Head(outbox[c]))
    /\ UNCHANGED <<closed, routed, current, recent, pc, outbox, nextId, durable,
                   clean, lost, crashes>>

\* After the commit: publish the oldest buffered event.
Flush(c) ==
    /\ pc[c] = "flushing"
    /\ outbox[c] # <<>>
    /\ ~closed
    /\ FanOut(Head(outbox[c]))
    /\ outbox' = [outbox EXCEPT ![c] = Tail(@)]
    /\ UNCHANGED <<closed, routed, current, recent, pc, nextId, durable, clean, lost, crashes>>

\* A job flushes after aclose: publish raises and the rest is dropped.
FlushClosed(j) ==
    /\ pc[j] = "flushing"
    /\ outbox[j] # <<>>
    /\ closed
    /\ lost' = lost \cup Ids(outbox[j])
    /\ outbox' = [outbox EXCEPT ![j] = <<>>]
    /\ pc' = [pc EXCEPT ![j] = "idle"]
    /\ UNCHANGED <<busVars, nextId, durable, clean, settled, crashes>>

\* The delivery ends cleanly: record the key, ready for the next event.
FinishDelivery(s) ==
    /\ pc[s] = "flushing"
    /\ outbox[s] = <<>>
    /\ recent' = [recent EXCEPT ![s] = RecordKey(s, current[s].key)]
    /\ clean' = [clean EXCEPT ![s] = Append(@, current[s])]
    /\ settled' = [settled EXCEPT ![s] = @ \cup {current[s].id}]
    /\ current' = [current EXCEPT ![s] = NoEvent]
    /\ pc' = [pc EXCEPT ![s] = "idle"]
    /\ UNCHANGED <<closed, routed, queue, outbox, nextId, durable, lost, crashes>>

FinishJob(j) ==
    /\ pc[j] = "flushing"
    /\ outbox[j] = <<>>
    /\ pc' = [pc EXCEPT ![j] = "idle"]
    /\ UNCHANGED <<busVars, outbox, nextId, histVars, crashes>>

Next ==
    \/ \E s \in Subs : \/ Subscribe(s)
                       \/ Unsubscribe(s)
                       \/ Take(s)
                       \/ FinishDelivery(s)
    \/ \E j \in Jobs : StartJob(j) \/ FlushClosed(j) \/ FinishJob(j)
    \/ \E c \in Contexts : Commit(c) \/ Fail(c) \/ Flush(c)
    \/ \E c \in Contexts, topic \in Topics, key \in Keys \cup {NoKey} :
          BufferedPublish(c, topic, key)
    \/ \E topic \in Topics, key \in Keys \cup {NoKey} : DirectPublish(topic, key)
    \/ Close
    \/ Crash

Spec == Init /\ [][Next]_vars

\* A worker task is always scheduled again and every handler returns: the only
\* awaits of a handler are database calls and broker calls under wait_for.
Fairness ==
    /\ \A s \in Subs : WF_vars(Take(s)) /\ WF_vars(FinishDelivery(s))
    /\ \A j \in Jobs : WF_vars(FinishJob(j)) /\ WF_vars(FlushClosed(j))
    /\ \A c \in Contexts : WF_vars(Commit(c) \/ Fail(c)) /\ WF_vars(Flush(c))

FairSpec == Spec /\ Fairness

-----------------------------------------------------------------------------
(* Properties.                                                             *)

\* Type invariant.
TypeOK ==
    /\ closed \in BOOLEAN
    /\ routed \subseteq Subs
    /\ queue \in [Subs -> Seq(Entry)]
    /\ current \in [Subs -> Entry \cup {NoEvent}]
    /\ recent \in [Subs -> Seq(Keys)]
    /\ pc \in [Contexts -> {"idle", "running", "flushing"}]
    /\ outbox \in [Contexts -> Seq(Event)]
    /\ nextId \in Nat
    /\ crashes \in Nat
    /\ durable \subseteq Nat
    /\ clean \in [Subs -> Seq(Entry)]
    /\ settled \in [Subs -> SUBSET Nat]
    /\ lost \subseteq Nat

\* Publish-after-commit (run_in_session_scope): a subscriber never holds, or
\* handles, an event of a unit of work that has not committed, so a handler
\* never reads a row its publisher may still roll back.
PublishAfterCommit ==
    \A s \in Subs :
        /\ Ids(queue[s]) \subseteq durable
        /\ current[s] # NoEvent => current[s].id \in durable
        /\ Ids(clean[s]) \subseteq durable

\* The dedup window of _record_key: bounded, and without a key twice (the
\* deque and its mirror set never disagree).
WindowOK ==
    \A s \in Subs :
        /\ Len(recent[s]) <= DedupWindow
        /\ \A i, j \in DOMAIN recent[s] : recent[s][i] = recent[s][j] => i = j

\* What the dedup of an idempotent subscriber really guarantees: a key is
\* handled cleanly a second time only if the second copy was enqueued before
\* the first was finished (publish checks the window, the worker fills it),
\* or if DedupWindow other keys were handled since the key's first delivery.
DedupWithinWindow ==
    \A s \in Idempotent :
        \A i, j \in DOMAIN clean[s] :
            /\ i < j
            /\ clean[s][i].key = clean[s][j].key
            /\ clean[s][i].key # NoKey
            /\ clean[s][j].seen >= i
            => Cardinality({clean[s][k].key : k \in 1..clean[s][j].seen}
                              \ {NoKey, clean[s][i].key}) >= DedupWindow

\* Delivery in order and at most once: the bus implements its contract.  Kept
\* back is what the outboxes hold, by the state of their units of work.
Held(state) == UNION {Ids(outbox[c]) : c \in {d \in Contexts : pc[d] = state}}
open == Held("running")
due == Held("flushing")
waiting == [s \in Subs |-> [i \in DOMAIN queue[s] |-> queue[s][i].id]]
handling == [s \in Subs |-> IF current[s] = NoEvent THEN {} ELSE {current[s].id}]
Contract == INSTANCE BusContract WITH ended <- settled
ImplementsContract == Contract!Spec

\* Failure isolation and no lost fan-out: an event whose unit of work has
\* committed reaches every subscriber of its type -- handled, failed in its
\* handler, or suppressed as a duplicate -- unless the subscriber goes away or
\* the publisher is cancelled between commit and fan-out.  In particular one
\* poison event never stops a worker.
InFlight(s, id) ==
    \/ id \in Ids(queue[s])
    \/ current[s] # NoEvent /\ current[s].id = id
    \/ /\ id \in durable
       /\ \E c \in Contexts : \E i \in DOMAIN outbox[c] :
             outbox[c][i].id = id /\ outbox[c][i].topic = TopicOf[s]

CommittedIsDelivered ==
    \A s \in Subs : \A id \in 0..(MaxEvents - 1) :
        (s \in routed /\ InFlight(s, id))
            ~> (id \in settled[s] \/ s \notin routed \/ id \in lost)
===============================================================================

--------------------------- MODULE MessageBusProofs ---------------------------
(***************************************************************************)
(* Proofs about MessageBus for any set of subscriptions, jobs, topics and  *)
(* keys and any dedup window.                                              *)
(*                                                                         *)
(*   TypeCorrect          Spec => []TypeOK                                 *)
(*   DedupWindowCorrect   Spec => []WindowOK                               *)
(*   NoUncommittedRead    Spec => []PublishAfterCommit                     *)
(*   DedupGuarantee       Spec => []DedupWithinWindow                      *)
(*   Refinement           Spec => ImplementsContract                       *)
(***************************************************************************)
EXTENDS MessageBus, SequenceTheorems, FiniteSetTheorems, TLAPS

-----------------------------------------------------------------------------
(* Lemmas on sequences.                                                    *)

\* Appending adds exactly the identity of the appended element.
LEMMA IdsAppend ==
    ASSUME NEW S, NEW q \in Seq(S), NEW e \in S
    PROVE  Ids(Append(q, e)) = Ids(q) \cup {e.id}
<1>1. /\ Append(q, e) \in Seq(S)
      /\ Len(Append(q, e)) = Len(q) + 1
      /\ \A i \in 1..Len(q) : Append(q, e)[i] = q[i]
      /\ Append(q, e)[Len(q) + 1] = e
  BY AppendProperties
<1>2. DOMAIN q = 1..Len(q) /\ DOMAIN Append(q, e) = 1..(Len(q) + 1) /\ Len(q) \in Nat
  BY <1>1, LenProperties
<1>3. 1..(Len(q) + 1) = 1..Len(q) \cup {Len(q) + 1}
  BY <1>2
<1> QED
  BY <1>1, <1>2, <1>3 DEF Ids

\* Taking the head of a queue: head and tail carry identities of the queue.
LEMMA IdsHeadTail ==
    ASSUME NEW S, NEW q \in Seq(S), q # <<>>
    PROVE  /\ Head(q) \in S
           /\ Tail(q) \in Seq(S)
           /\ Head(q).id \in Ids(q)
           /\ Ids(Tail(q)) \subseteq Ids(q)
<1>1. /\ Head(q) = q[1] /\ Head(q) \in S /\ Tail(q) \in Seq(S)
      /\ Len(Tail(q)) = Len(q) - 1
      /\ \A i \in 1..Len(Tail(q)) : Tail(q)[i] = q[i + 1]
  BY HeadTailProperties
<1>2. Len(q) \in Nat /\ Len(q) # 0 /\ DOMAIN q = 1..Len(q)
      /\ DOMAIN Tail(q) = 1..Len(Tail(q))
  BY <1>1, LenProperties, EmptySeq
<1>3. 1 \in DOMAIN q
  BY <1>2
<1>4. \A i \in DOMAIN Tail(q) : i + 1 \in DOMAIN q /\ Tail(q)[i] = q[i + 1]
  BY <1>1, <1>2
<1> QED
  BY <1>1, <1>3, <1>4 DEF Ids

LEMMA IdsOfEmpty == Ids(<<>>) = {}
BY DEF Ids

-----------------------------------------------------------------------------
(* Type correctness.  A worker in the middle of a delivery holds its event; *)
(* without that, Fail and FinishDelivery could not be typed.               *)

HandOK == \A s \in Subs : pc[s] # "idle" => current[s] # NoEvent

TypeInv == TypeOK /\ HandOK

\* Fanning an event out keeps queues of entries and sets of identities.
LEMMA FanOutType ==
    ASSUME TypeOK, NEW e \in Event, FanOut(e)
    PROVE  /\ queue' \in [Subs -> Seq(Entry)]
           /\ settled' \in [Subs -> SUBSET Nat]
<1>1. ASSUME NEW s \in Subs
      PROVE  /\ [id |-> e.id, key |-> e.key, seen |-> Len(clean[s])] \in Entry
             /\ Append(queue[s], [id |-> e.id, key |-> e.key, seen |-> Len(clean[s])])
                  \in Seq(Entry)
  <2>1. clean[s] \in Seq(Entry) /\ queue[s] \in Seq(Entry)
    BY DEF TypeOK
  <2>2. Len(clean[s]) \in Nat
    BY <2>1, LenProperties
  <2>3. [id |-> e.id, key |-> e.key, seen |-> Len(clean[s])] \in Entry
    BY <2>2 DEF Event, Entry
  <2> QED
    BY <2>1, <2>3, AppendProperties
<1>2. \A s \in Subs : queue[s] \in Seq(Entry) /\ settled[s] \in SUBSET Nat
  BY DEF TypeOK
<1>3. e.id \in Nat
  BY DEF Event
<1> QED
  BY <1>1, <1>2, <1>3 DEF FanOut

\* Cancelling workers keeps the types; lost only grows by identities.
LEMMA CancelType ==
    ASSUME TypeInv, NEW S, S \subseteq Contexts, Cancel(S)
    PROVE  /\ queue' \in [Subs -> Seq(Entry)]
           /\ current' \in [Subs -> Entry \cup {NoEvent}]
           /\ pc' \in [Contexts -> {"idle", "running", "flushing"}]
           /\ outbox' \in [Contexts -> Seq(Event)]
           /\ lost' \subseteq Nat
           /\ HandOK'
<1>1. <<>> \in Seq(Entry) /\ <<>> \in Seq(Event)
  BY EmptySeq
<1>2. /\ queue' \in [Subs -> Seq(Entry)]
      /\ current' \in [Subs -> Entry \cup {NoEvent}]
      /\ pc' \in [Contexts -> {"idle", "running", "flushing"}]
      /\ outbox' \in [Contexts -> Seq(Event)]
  BY <1>1 DEF Cancel, TypeInv, TypeOK
<1>3. lost' \subseteq Nat
  BY DEF Cancel, TypeInv, TypeOK
<1>4. HandOK'
  BY DEF Cancel, TypeInv, TypeOK, HandOK, Contexts
<1> QED
  BY <1>2, <1>3, <1>4

\* _record_key returns a window of keys.
LEMMA RecordKeyType ==
    ASSUME NEW s \in Subs, recent[s] \in Seq(Keys), NEW key \in Keys \cup {NoKey}
    PROVE  RecordKey(s, key) \in Seq(Keys)
<1>1. CASE key = NoKey \/ s \notin Idempotent \/ HasSeen(s, key)
  BY <1>1 DEF RecordKey
<1>2. CASE ~(key = NoKey \/ s \notin Idempotent \/ HasSeen(s, key))
  <2>1. key \in Keys
    BY <1>2
  <2>2. /\ Append(recent[s], key) \in Seq(Keys)
        /\ Append(recent[s], key) # <<>>
    BY <2>1, AppendProperties
  <2>3. Tail(Append(recent[s], key)) \in Seq(Keys)
    BY <2>2, HeadTailProperties
  <2> QED
    BY <1>2, <2>2, <2>3 DEF RecordKey
<1> QED
  BY <1>1, <1>2

\* The initial state is well typed.
LEMMA InitTypeInv == Init => TypeInv
<1> SUFFICES ASSUME Init PROVE TypeInv
  OBVIOUS
<1>1. <<>> \in Seq(Entry) /\ <<>> \in Seq(Event) /\ <<>> \in Seq(Keys)
  BY EmptySeq
<1>2. TypeOK
  BY <1>1 DEF Init, TypeOK
<1>3. HandOK
  BY DEF Init, HandOK, Contexts
<1> QED
  BY <1>2, <1>3 DEF TypeInv

\* Every step keeps the types, action by action.
LEMMA NextTypeInv == TypeInv /\ [Next]_vars => TypeInv'
<1> SUFFICES ASSUME TypeInv, [Next]_vars PROVE TypeInv'
  OBVIOUS
<1> USE DEF TypeInv
<1>a. <<>> \in Seq(Entry) /\ <<>> \in Seq(Event) /\ <<>> \in Seq(Keys)
  BY EmptySeq
<1>b. Subs \subseteq Contexts /\ Jobs \subseteq Contexts /\ Subs \cap Jobs = {}
  BY BusAssumption DEF Contexts
<1>1. ASSUME NEW s \in Subs, Subscribe(s) PROVE TypeInv'
  BY <1>1, <1>a DEF Subscribe, uowVars, TypeOK, HandOK
<1>2. ASSUME NEW s \in Subs, Unsubscribe(s) PROVE TypeInv'
  <2>1. Cancel({s}) /\ {s} \subseteq Contexts
    BY <1>2, <1>b DEF Unsubscribe
  <2> QED
    BY <1>2, <2>1, CancelType DEF Unsubscribe, TypeOK
<1>3. CASE Close
  <2>1. Cancel(Subs)
    BY <1>3 DEF Close
  <2> QED
    BY <1>3, <2>1, <1>b, CancelType DEF Close, TypeOK
<1>4. CASE Crash
  <2>1. Cancel(Contexts) /\ crashes \in Nat /\ crashes' = crashes + 1
    BY <1>4 DEF Crash, TypeOK
  <2>2. crashes' \in Nat
    BY <2>1
  <2> QED
    BY <1>4, <2>1, <2>2, <1>a, CancelType DEF Crash, TypeOK
<1>5. ASSUME NEW s \in Subs, Take(s) PROVE TypeInv'
  <2>1. Head(queue[s]) \in Entry /\ Tail(queue[s]) \in Seq(Entry)
    BY <1>5, IdsHeadTail DEF Take, TypeOK
  <2>2. Head(queue[s]) # NoEvent
    BY <2>1, NoEventAssumption
  <2>3. TypeOK'
    BY <1>5, <1>b, <2>1 DEF Take, TypeOK, histVars
  <2>4. HandOK'
    BY <1>5, <1>b, <2>2 DEF Take, TypeOK, HandOK
  <2> QED
    BY <2>3, <2>4
<1>6. ASSUME NEW j \in Jobs, StartJob(j) PROVE TypeInv'
  BY <1>6, <1>b DEF StartJob, TypeOK, HandOK, busVars, histVars
<1>7. ASSUME NEW c \in Contexts, NEW topic \in Topics, NEW key \in Keys \cup {NoKey},
             BufferedPublish(c, topic, key)
      PROVE  TypeInv'
  <2>1. [id |-> nextId, topic |-> topic, key |-> key] \in Event
    BY DEF TypeOK, Event
  <2>2. Append(outbox[c], [id |-> nextId, topic |-> topic, key |-> key]) \in Seq(Event)
    BY <2>1, AppendProperties DEF TypeOK
  <2>3. nextId' \in Nat
    BY <1>7 DEF BufferedPublish, TypeOK
  <2>4. outbox' \in [Contexts -> Seq(Event)]
    BY <1>7, <2>2 DEF BufferedPublish, TypeOK
  <2>5. TypeOK'
    BY <1>7, <2>3, <2>4 DEF BufferedPublish, TypeOK, busVars, histVars
  <2>6. HandOK'
    BY <1>7 DEF BufferedPublish, HandOK, busVars
  <2> QED
    BY <2>5, <2>6
<1>8. ASSUME NEW topic \in Topics, NEW key \in Keys \cup {NoKey}, DirectPublish(topic, key)
      PROVE  TypeInv'
  <2>1. [id |-> nextId, topic |-> topic, key |-> key] \in Event
    BY DEF TypeOK, Event
  <2>2. queue' \in [Subs -> Seq(Entry)] /\ settled' \in [Subs -> SUBSET Nat]
    BY <1>8, <2>1, FanOutType DEF DirectPublish
  <2>3. nextId' \in Nat /\ durable' \subseteq Nat
    BY <1>8 DEF DirectPublish, TypeOK
  <2> QED
    BY <1>8, <2>2, <2>3 DEF DirectPublish, TypeOK, HandOK
<1>9. ASSUME NEW c \in Contexts, Commit(c) PROVE TypeInv'
  <2>1. Ids(outbox[c]) \subseteq Nat
    <3>1. outbox[c] \in Seq(Event)
      BY DEF TypeOK
    <3>2. \A i \in DOMAIN outbox[c] : outbox[c][i] \in Event
      BY <3>1, ElementOfSeq, LenProperties
    <3> QED
      BY <3>2 DEF Ids, Event
  <2>2. HandOK'
    BY <1>9, <1>b DEF Commit, TypeOK, HandOK, busVars
  <2> QED
    BY <1>9, <2>1, <2>2 DEF Commit, TypeOK, busVars
<1>10. ASSUME NEW c \in Contexts, Fail(c) PROVE TypeInv'
  <2>1. \A s \in Subs : s = c => current[s].id \in Nat
    BY <1>10, <1>b DEF Fail, TypeOK, HandOK, Entry
  <2>2. TypeOK'
    BY <1>10, <1>a, <2>1 DEF Fail, TypeOK
  <2>3. HandOK'
    BY <1>10, <1>b DEF Fail, TypeOK, HandOK
  <2> QED
    BY <2>2, <2>3
<1>11. ASSUME NEW c \in Contexts, Flush(c) PROVE TypeInv'
  <2>1. outbox[c] \in Seq(Event) /\ outbox[c] # <<>>
    BY <1>11 DEF Flush, TypeOK
  <2>2. Head(outbox[c]) \in Event /\ Tail(outbox[c]) \in Seq(Event)
    BY <2>1, IdsHeadTail
  <2>3. queue' \in [Subs -> Seq(Entry)] /\ settled' \in [Subs -> SUBSET Nat]
    BY <1>11, <2>2, FanOutType DEF Flush
  <2> QED
    BY <1>11, <2>2, <2>3 DEF Flush, TypeOK, HandOK
<1>12. ASSUME NEW j \in Jobs, FlushClosed(j) PROVE TypeInv'
  <2>1. Ids(outbox[j]) \subseteq Nat
    <3>1. outbox[j] \in Seq(Event)
      BY <1>b DEF TypeOK
    <3>2. \A i \in DOMAIN outbox[j] : outbox[j][i] \in Event
      BY <3>1, ElementOfSeq, LenProperties
    <3> QED
      BY <3>2 DEF Ids, Event
  <2>2. HandOK'
    BY <1>12, <1>b DEF FlushClosed, TypeOK, HandOK, busVars
  <2> QED
    BY <1>12, <1>a, <1>b, <2>1, <2>2 DEF FlushClosed, TypeOK, busVars
<1>13. ASSUME NEW s \in Subs, FinishDelivery(s) PROVE TypeInv'
  <2>1. current[s] \in Entry
    BY <1>13, <1>b DEF FinishDelivery, TypeOK, HandOK
  <2>2. current[s].key \in Keys \cup {NoKey} /\ current[s].id \in Nat
    BY <2>1 DEF Entry
  <2>3. RecordKey(s, current[s].key) \in Seq(Keys)
    BY <2>2, RecordKeyType DEF TypeOK
  <2>4. Append(clean[s], current[s]) \in Seq(Entry)
    BY <2>1, AppendProperties DEF TypeOK
  <2>5. TypeOK'
    BY <1>13, <1>b, <2>2, <2>3, <2>4 DEF FinishDelivery, TypeOK
  <2>6. HandOK'
    BY <1>13, <1>b DEF FinishDelivery, TypeOK, HandOK
  <2> QED
    BY <2>5, <2>6
<1>14. ASSUME NEW j \in Jobs, FinishJob(j) PROVE TypeInv'
  BY <1>14, <1>b DEF FinishJob, TypeOK, HandOK, busVars, histVars
<1>15. CASE UNCHANGED vars
  BY <1>15 DEF vars, busVars, uowVars, histVars, TypeOK, HandOK
<1> QED
  BY <1>1, <1>2, <1>3, <1>4, <1>5, <1>6, <1>7, <1>8, <1>9, <1>10, <1>11, <1>12,
     <1>13, <1>14, <1>15 DEF Next

\* Types are kept, and a delivery in progress holds its event.
THEOREM TypeInvariant == Spec => []TypeInv
<1> QED
  BY InitTypeInv, NextTypeInv, PTL DEF Spec

\* Every variable of the bus keeps its type in every behaviour.
THEOREM TypeCorrect == Spec => []TypeOK
<1>1. TypeInv => TypeOK
  BY DEF TypeInv
<1> QED
  BY <1>1, TypeInvariant, PTL

-----------------------------------------------------------------------------
(* The dedup window.                                                       *)

\* One _record_key keeps a window bounded and free of duplicates.
LEMMA RecordKeyWindow ==
    ASSUME NEW s \in Subs, recent[s] \in Seq(Keys), NEW key \in Keys \cup {NoKey},
           Len(recent[s]) <= DedupWindow,
           \A i, j \in DOMAIN recent[s] : recent[s][i] = recent[s][j] => i = j
    PROVE  /\ Len(RecordKey(s, key)) <= DedupWindow
           /\ \A i, j \in DOMAIN RecordKey(s, key) :
                 RecordKey(s, key)[i] = RecordKey(s, key)[j] => i = j
<1> DEFINE old == recent[s]
           new == Append(old, key)
<1>1. CASE key = NoKey \/ s \notin Idempotent \/ HasSeen(s, key)
  BY <1>1 DEF RecordKey
<1>2. CASE ~(key = NoKey \/ s \notin Idempotent \/ HasSeen(s, key))
  <2>1. key \in Keys /\ \A i \in DOMAIN old : old[i] # key
    BY <1>2 DEF HasSeen
  <2>2. /\ new \in Seq(Keys) /\ new # <<>>
        /\ Len(new) = Len(old) + 1
        /\ \A i \in 1..Len(old) : new[i] = old[i]
        /\ new[Len(old) + 1] = key
    BY <2>1, AppendProperties
  <2>3. /\ Len(old) \in Nat /\ Len(new) \in Nat
        /\ DOMAIN old = 1..Len(old) /\ DOMAIN new = 1..Len(new)
    BY <2>2, LenProperties
  <2>4. \A i, j \in DOMAIN new : new[i] = new[j] => i = j
    <3> SUFFICES ASSUME NEW i \in DOMAIN new, NEW j \in DOMAIN new, new[i] = new[j]
                 PROVE  i = j
      OBVIOUS
    <3>1. (i \in 1..Len(old) \/ i = Len(old) + 1) /\ (j \in 1..Len(old) \/ j = Len(old) + 1)
      BY <2>2, <2>3
    <3> QED
      BY <2>1, <2>2, <2>3, <3>1
  <2>5. CASE Len(new) > DedupWindow
    <3>1. RecordKey(s, key) = Tail(new)
      BY <1>2, <2>5 DEF RecordKey
    <3>2. /\ Tail(new) \in Seq(Keys) /\ Len(Tail(new)) = Len(new) - 1
          /\ \A i \in 1..Len(Tail(new)) : Tail(new)[i] = new[i + 1]
      BY <2>2, HeadTailProperties
    <3>3. DOMAIN Tail(new) = 1..Len(Tail(new))
      BY <3>2, LenProperties
    <3>4. Len(Tail(new)) <= DedupWindow
      BY <2>2, <2>3, <3>2, BusAssumption
    <3>5. \A i, j \in DOMAIN Tail(new) : Tail(new)[i] = Tail(new)[j] => i = j
      <4> SUFFICES ASSUME NEW i \in DOMAIN Tail(new), NEW j \in DOMAIN Tail(new),
                          Tail(new)[i] = Tail(new)[j]
                   PROVE  i = j
        OBVIOUS
      <4> HIDE DEF new
      <4>1. i \in 1..Len(Tail(new)) /\ j \in 1..Len(Tail(new))
        BY <3>3
      <4>2. new[i + 1] = new[j + 1]
        BY <3>2, <4>1
      <4>3. /\ i \in Nat /\ j \in Nat
            /\ i + 1 \in 1..Len(new) /\ j + 1 \in 1..Len(new)
        BY <2>3, <3>2, <4>1
      <4>4. i + 1 = j + 1
        BY <2>3, <2>4, <4>2, <4>3
      <4> QED
        BY <4>3, <4>4
    <3> QED
      BY <3>1, <3>4, <3>5
  <2>6. CASE ~(Len(new) > DedupWindow)
    <3>1. RecordKey(s, key) = new
      BY <1>2, <2>6 DEF RecordKey
    <3>2. Len(new) <= DedupWindow
      BY <2>3, <2>6, BusAssumption
    <3> QED
      BY <2>4, <3>1, <3>2
  <2> QED
    BY <2>5, <2>6
<1> QED
  BY <1>1, <1>2

\* Only Subscribe, Crash and FinishDelivery touch a window.
LEMMA WindowStep == TypeInv /\ WindowOK /\ [Next]_vars => WindowOK'
<1> SUFFICES ASSUME TypeInv, WindowOK, [Next]_vars PROVE WindowOK'
  OBVIOUS
<1>a. Len(<<>>) = 0 /\ DOMAIN <<>> = {} /\ 0 <= DedupWindow
  BY BusAssumption, EmptySeq
<1>b. recent \in [Subs -> Seq(Keys)]
  BY DEF TypeInv, TypeOK
<1>1. ASSUME NEW s \in Subs, Subscribe(s) PROVE WindowOK'
  BY <1>1, <1>a, <1>b DEF Subscribe, WindowOK
<1>2. CASE Crash
  BY <1>2, <1>a DEF Crash, WindowOK
<1>3. ASSUME NEW s \in Subs, FinishDelivery(s) PROVE WindowOK'
  <2>1. current[s] \in Entry
    BY <1>3 DEF FinishDelivery, TypeInv, TypeOK, HandOK
  <2>2. current[s].key \in Keys \cup {NoKey}
    BY <2>1 DEF Entry
  <2>3. /\ Len(RecordKey(s, current[s].key)) <= DedupWindow
        /\ \A i, j \in DOMAIN RecordKey(s, current[s].key) :
              RecordKey(s, current[s].key)[i] = RecordKey(s, current[s].key)[j] => i = j
    BY <1>b, <2>2, RecordKeyWindow DEF WindowOK
  <2>4. recent' = [recent EXCEPT ![s] = RecordKey(s, current[s].key)]
    BY <1>3 DEF FinishDelivery
  <2> QED
    BY <1>b, <2>3, <2>4 DEF WindowOK
<1>4. ASSUME UNCHANGED recent PROVE WindowOK'
  BY <1>4 DEF WindowOK
<1> QED
  BY <1>1, <1>2, <1>3, <1>4
     DEF Next, Unsubscribe, Close, Take, StartJob, BufferedPublish, DirectPublish,
         Commit, Fail, Flush, FlushClosed, FinishJob, vars, busVars

\* The window of remembered keys never outgrows dedup_window and never holds
\* a key twice, so the deque and its mirror set agree.
THEOREM DedupWindowCorrect == Spec => []WindowOK
<1>1. Init => WindowOK
  BY BusAssumption, EmptySeq DEF Init, WindowOK
<1> QED
  BY <1>1, WindowStep, TypeInvariant, PTL DEF Spec

-----------------------------------------------------------------------------
(* Publish after commit.  PublishAfterCommit alone is not inductive: what   *)
(* Flush puts in a queue comes from an outbox, so the outbox of a unit of   *)
(* work that is fanning out must already be durable.                       *)

FlushDurable == \A c \in Contexts : pc[c] = "flushing" => Ids(outbox[c]) \subseteq durable

CommitInv == PublishAfterCommit /\ FlushDurable

\* A fan-out of a durable event puts only durable events in the queues.
LEMMA FanOutDurable ==
    ASSUME TypeInv, NEW e \in Event, FanOut(e), NEW D, e.id \in D,
           \A s \in Subs : Ids(queue[s]) \subseteq D
    PROVE  \A s \in Subs : Ids(queue'[s]) \subseteq D
<1> TAKE s \in Subs
<1> DEFINE entry == [id |-> e.id, key |-> e.key, seen |-> Len(clean[s])]
<1>1. clean[s] \in Seq(Entry) /\ queue[s] \in Seq(Entry)
  BY DEF TypeInv, TypeOK
<1>2. entry \in Entry /\ entry.id = e.id
  BY <1>1, LenProperties DEF Event, Entry
<1>3. Ids(Append(queue[s], entry)) = Ids(queue[s]) \cup {e.id}
  BY <1>1, <1>2, IdsAppend
<1>4. queue'[s] = Append(queue[s], entry) \/ queue'[s] = queue[s]
  BY DEF FanOut
<1>5. CASE queue'[s] = Append(queue[s], entry)
  <2>1. Ids(queue'[s]) = Ids(queue[s]) \cup {e.id}
    BY <1>3, <1>5
  <2> QED
    BY <2>1
<1>6. CASE queue'[s] = queue[s]
  <2>1. Ids(queue'[s]) = Ids(queue[s])
    BY <1>6
  <2> QED
    BY <2>1
<1> QED
  BY <1>4, <1>5, <1>6

\* Cancelling workers leaves only events that were already in the queues.
LEMMA CancelDurable ==
    ASSUME TypeInv, CommitInv, NEW S, S \subseteq Contexts, Cancel(S),
           UNCHANGED durable, \A s \in Subs : clean'[s] = clean[s] \/ clean'[s] = <<>>
    PROVE  CommitInv'
<1>1. \A s \in Subs : queue'[s] = queue[s] \/ queue'[s] = <<>>
  BY DEF Cancel
<1>2. \A s \in Subs : current'[s] = current[s] \/ current'[s] = NoEvent
  BY DEF Cancel
<1>3. PublishAfterCommit'
  BY <1>1, <1>2, IdsOfEmpty DEF CommitInv, PublishAfterCommit, Ids
<1>4. FlushDurable'
  BY IdsOfEmpty DEF CommitInv, FlushDurable, Cancel, Ids
<1> QED
  BY <1>3, <1>4 DEF CommitInv

LEMMA CommitStep == TypeInv /\ CommitInv /\ [Next]_vars => CommitInv'
<1> SUFFICES ASSUME TypeInv, CommitInv, [Next]_vars PROVE CommitInv'
  OBVIOUS
<1> USE DEF CommitInv
<1>b. Subs \subseteq Contexts /\ Jobs \subseteq Contexts /\ Subs \cap Jobs = {}
  BY BusAssumption DEF Contexts
<1>1. ASSUME NEW s \in Subs, Subscribe(s) PROVE CommitInv'
  <2>1. \A t \in Subs : clean'[t] = clean[t] \/ clean'[t] = <<>>
    BY <1>1 DEF Subscribe, TypeInv, TypeOK
  <2> QED
    BY <1>1, <2>1, IdsOfEmpty DEF Subscribe, uowVars, PublishAfterCommit, FlushDurable, Ids
<1>2. ASSUME NEW s \in Subs, Unsubscribe(s) PROVE CommitInv'
  BY <1>2, <1>b, CancelDurable DEF Unsubscribe
<1>3. CASE Close
  BY <1>3, <1>b, CancelDurable DEF Close
<1>4. CASE Crash
  BY <1>4, CancelDurable DEF Crash
<1>5. ASSUME NEW s \in Subs, Take(s) PROVE CommitInv'
  <2>1. /\ Head(queue[s]).id \in Ids(queue[s])
        /\ Ids(Tail(queue[s])) \subseteq Ids(queue[s])
    BY <1>5, IdsHeadTail DEF Take, TypeInv, TypeOK
  <2>2. PublishAfterCommit'
    BY <1>5, <2>1 DEF Take, PublishAfterCommit, TypeInv, TypeOK, histVars, Ids
  <2>3. FlushDurable'
    BY <1>5, <1>b DEF Take, FlushDurable, TypeInv, TypeOK, histVars, Ids
  <2> QED
    BY <2>2, <2>3
<1>6. ASSUME NEW j \in Jobs, StartJob(j) PROVE CommitInv'
  BY <1>6, <1>b DEF StartJob, PublishAfterCommit, FlushDurable, TypeInv, TypeOK,
                    busVars, histVars, Ids
<1>7. ASSUME NEW c \in Contexts, NEW topic \in Topics, NEW key \in Keys \cup {NoKey},
             BufferedPublish(c, topic, key)
      PROVE  CommitInv'
  BY <1>7 DEF BufferedPublish, PublishAfterCommit, FlushDurable, TypeInv, TypeOK,
              busVars, histVars, Ids
<1>8. ASSUME NEW topic \in Topics, NEW key \in Keys \cup {NoKey}, DirectPublish(topic, key)
      PROVE  CommitInv'
  <2> DEFINE e == [id |-> nextId, topic |-> topic, key |-> key]
  <2>1. e \in Event /\ e.id \in durable' /\ durable \subseteq durable'
    BY <1>8 DEF DirectPublish, TypeInv, TypeOK, Event
  <2>2. FanOut(e)
    BY <1>8 DEF DirectPublish
  <2>3. \A s \in Subs : Ids(queue[s]) \subseteq durable'
    BY <2>1 DEF PublishAfterCommit
  <2>4. \A s \in Subs : Ids(queue'[s]) \subseteq durable'
    BY <2>1, <2>2, <2>3, FanOutDurable
  <2> QED
    BY <1>8, <2>1, <2>4 DEF DirectPublish, PublishAfterCommit, FlushDurable, Ids
<1>9. ASSUME NEW c \in Contexts, Commit(c) PROVE CommitInv'
  BY <1>9 DEF Commit, PublishAfterCommit, FlushDurable, TypeInv, TypeOK, busVars, Ids
<1>10. ASSUME NEW c \in Contexts, Fail(c) PROVE CommitInv'
  BY <1>10 DEF Fail, PublishAfterCommit, FlushDurable, TypeInv, TypeOK, Ids
<1>11. ASSUME NEW c \in Contexts, Flush(c) PROVE CommitInv'
  <2>1. outbox[c] \in Seq(Event) /\ outbox[c] # <<>> /\ Ids(outbox[c]) \subseteq durable
    BY <1>11 DEF Flush, FlushDurable, TypeInv, TypeOK
  <2>2. /\ Head(outbox[c]) \in Event
        /\ Head(outbox[c]).id \in durable
        /\ Ids(Tail(outbox[c])) \subseteq durable
    BY <2>1, IdsHeadTail
  <2>3. \A s \in Subs : Ids(queue'[s]) \subseteq durable
    BY <1>11, <2>2, FanOutDurable DEF Flush, PublishAfterCommit
  <2>4. PublishAfterCommit'
    BY <1>11, <2>3 DEF Flush, PublishAfterCommit, Ids
  <2>5. FlushDurable'
    BY <1>11, <2>2 DEF Flush, FlushDurable, TypeInv, TypeOK, Ids
  <2> QED
    BY <2>4, <2>5
<1>12. ASSUME NEW j \in Jobs, FlushClosed(j) PROVE CommitInv'
  BY <1>12, <1>b DEF FlushClosed, PublishAfterCommit, FlushDurable, TypeInv, TypeOK,
                     busVars, Ids
<1>13. ASSUME NEW s \in Subs, FinishDelivery(s) PROVE CommitInv'
  <2>1. current[s] \in Entry /\ current[s].id \in durable
    BY <1>13 DEF FinishDelivery, PublishAfterCommit, TypeInv, TypeOK, HandOK
  <2>2. Ids(Append(clean[s], current[s])) = Ids(clean[s]) \cup {current[s].id}
    BY <2>1, IdsAppend DEF TypeInv, TypeOK
  <2>3. PublishAfterCommit'
    BY <1>13, <2>1, <2>2 DEF FinishDelivery, PublishAfterCommit, TypeInv, TypeOK, Ids
  <2>4. FlushDurable'
    BY <1>13 DEF FinishDelivery, FlushDurable, TypeInv, TypeOK, Ids
  <2> QED
    BY <2>3, <2>4
<1>14. ASSUME NEW j \in Jobs, FinishJob(j) PROVE CommitInv'
  BY <1>14, <1>b DEF FinishJob, PublishAfterCommit, FlushDurable, TypeInv, TypeOK,
                     busVars, histVars, Ids
<1>15. CASE UNCHANGED vars
  BY <1>15 DEF vars, busVars, uowVars, histVars, PublishAfterCommit, FlushDurable, Ids
<1> QED
  BY <1>1, <1>2, <1>3, <1>4, <1>5, <1>6, <1>7, <1>8, <1>9, <1>10, <1>11, <1>12,
     <1>13, <1>14, <1>15 DEF Next

\* No subscriber ever sees an event of a unit of work that did not commit.
THEOREM NoUncommittedRead == Spec => []PublishAfterCommit
<1>1. Init => CommitInv
  BY IdsOfEmpty DEF Init, CommitInv, PublishAfterCommit, FlushDurable, Contexts
<1>2. CommitInv => PublishAfterCommit
  BY DEF CommitInv
<1> QED
  BY <1>1, <1>2, CommitStep, TypeInvariant, PTL DEF Spec
-----------------------------------------------------------------------------
(* The dedup guarantee.  What the window forgets is bounded from the other  *)
(* side too: a key that was delivered and is not remembered was pushed out  *)
(* by a full window of other keys.                                         *)

\* The keys of the first n deliveries.
KeysUpTo(c, n) == {c[k].key : k \in 1..n}

\* A window remembers keys that were delivered, and all of them unless full.
Remembers(c, window) ==
    /\ \A i \in DOMAIN window : \E k \in DOMAIN c : c[k].key = window[i]
    /\ \/ Len(window) = DedupWindow
       \/ \A k \in DOMAIN c :
             c[k].key = NoKey \/ \E i \in DOMAIN window : window[i] = c[k].key

\* If the key of an entry had been delivered when the entry was enqueued, so
\* had a window of other keys.
Excused(c, e) ==
    /\ e.seen <= Len(c)
    /\ e.key # NoKey /\ e.key \in KeysUpTo(c, e.seen) =>
          Cardinality(KeysUpTo(c, e.seen) \ {NoKey, e.key}) >= DedupWindow

DedupOf(s) ==
    /\ Remembers(clean[s], recent[s])
    /\ \A i \in DOMAIN queue[s] : Excused(clean[s], queue[s][i])
    /\ current[s] # NoEvent => Excused(clean[s], current[s])
    /\ \A i \in DOMAIN clean[s] : Excused(clean[s], clean[s][i])

\* A subscription that is gone has no queue and no delivery in progress.
GoneIsEmpty == \A s \in Subs : s \notin routed => queue[s] = <<>> /\ current[s] = NoEvent

DedupInv == GoneIsEmpty /\ \A s \in Idempotent : DedupOf(s)

\* A sequence has finitely many keys.
LEMMA KeysFinite ==
    ASSUME NEW c, NEW n \in Nat PROVE IsFiniteSet(KeysUpTo(c, n))
<1>1. [k \in 1..n |-> c[k].key] \in Surjection(1..n, KeysUpTo(c, n))
  BY DEF KeysUpTo, Surjection
<1>2. IsFiniteSet(1..n)
  BY FS_Interval
<1> QED
  BY <1>1, <1>2, FS_Surjection

\* A sequence without repetitions is no longer than a set that holds its
\* elements.
LEMMA DistinctCount ==
    ASSUME NEW n \in Nat, NEW f, NEW S, IsFiniteSet(S), f \in [1..n -> S],
           \A i, j \in 1..n : f[i] = f[j] => i = j
    PROVE  Cardinality(S) >= n
<1>1. f \in Injection(1..n, S)
  BY DEF Injection, IsInjective
<1>2. IsFiniteSet(1..n) /\ Cardinality(1..n) = n
  BY FS_Interval
<1>3. Cardinality(1..n) <= Cardinality(S)
  BY <1>1, FS_Injection
<1> QED
  BY <1>2, <1>3, FS_CardinalityType

\* A key that was delivered and is not in the window was followed, or
\* preceded, by a window of other keys.
LEMMA ForgottenIsExcused ==
    ASSUME NEW c \in Seq(Entry), NEW window \in Seq(Keys), Remembers(c, window),
           \A i, j \in DOMAIN window : window[i] = window[j] => i = j,
           NEW key \in Keys, \A i \in DOMAIN window : window[i] # key,
           key \in KeysUpTo(c, Len(c))
    PROVE  Cardinality(KeysUpTo(c, Len(c)) \ {NoKey, key}) >= DedupWindow
<1> DEFINE others == KeysUpTo(c, Len(c)) \ {NoKey, key}
<1>1. /\ Len(c) \in Nat /\ DOMAIN c = 1..Len(c)
      /\ Len(window) \in Nat /\ DOMAIN window = 1..Len(window)
      /\ \A i \in 1..Len(window) : window[i] \in Keys
  BY LenProperties, ElementOfSeq
<1>2. Len(window) = DedupWindow
  <2>1. PICK k \in DOMAIN c : c[k].key = key
    BY <1>1 DEF KeysUpTo
  <2>2. key # NoKey
    BY BusAssumption
  <2> QED
    BY <2>1, <2>2 DEF Remembers
<1>3. ASSUME NEW i \in 1..Len(window) PROVE window[i] \in others
  <2>1. window[i] \in Keys /\ window[i] # NoKey /\ window[i] # key
    BY <1>1, BusAssumption
  <2>2. \E k \in 1..Len(c) : c[k].key = window[i]
    BY <1>1 DEF Remembers
  <2> QED
    BY <2>1, <2>2 DEF KeysUpTo
<1>4. window \in [1..Len(window) -> others]
  <2>1. window = [i \in 1..Len(window) |-> window[i]]
    BY <1>1, LenProperties
  <2> QED
    BY <1>3, <2>1
<1>5. IsFiniteSet(others)
  BY <1>1, KeysFinite, FS_Difference
<1> QED
  BY <1>1, <1>2, <1>4, <1>5, DistinctCount

\* What excuses an entry is in the deliveries before it, which never change.
LEMMA ExcusedStays ==
    ASSUME NEW c \in Seq(Entry), NEW d \in Seq(Entry), Len(c) <= Len(d),
           \A k \in 1..Len(c) : d[k] = c[k],
           NEW e \in Entry, Excused(c, e)
    PROVE  Excused(d, e)
<1>1. Len(c) \in Nat /\ Len(d) \in Nat /\ e.seen \in Nat /\ e.seen <= Len(c)
  BY LenProperties DEF Entry, Excused
<1>2. KeysUpTo(d, e.seen) = KeysUpTo(c, e.seen)
  BY <1>1 DEF KeysUpTo
<1> QED
  BY <1>1, <1>2 DEF Excused

\* _record_key after a clean delivery keeps the window's account.
LEMMA RecordKeyRemembers ==
    ASSUME NEW s \in Idempotent, recent[s] \in Seq(Keys), Len(recent[s]) <= DedupWindow,
           NEW c \in Seq(Entry), NEW e \in Entry, Remembers(c, recent[s])
    PROVE  Remembers(Append(c, e), RecordKey(s, e.key))
<1> DEFINE old == recent[s]
           new == Append(old, e.key)
           d == Append(c, e)
<1>1. /\ Len(c) \in Nat /\ DOMAIN c = 1..Len(c)
      /\ d \in Seq(Entry) /\ DOMAIN d = 1..(Len(c) + 1)
      /\ \A k \in 1..Len(c) : d[k] = c[k]
      /\ d[Len(c) + 1] = e
  BY AppendProperties, LenProperties
<1>2. \A k \in DOMAIN d : (k \in DOMAIN c /\ d[k] = c[k]) \/ d[k] = e
  BY <1>1
<1>3. (\A k \in DOMAIN c : k \in DOMAIN d /\ d[k] = c[k]) /\ Len(c) + 1 \in DOMAIN d
  BY <1>1
<1>4. CASE e.key = NoKey \/ HasSeen(s, e.key)
  <2>1. RecordKey(s, e.key) = old
    BY <1>4 DEF RecordKey
  <2>2. \A i \in DOMAIN old : \E k \in DOMAIN d : d[k].key = old[i]
    BY <1>3 DEF Remembers
  <2>3. e.key = NoKey \/ \E i \in DOMAIN old : old[i] = e.key
    BY <1>4 DEF HasSeen
  <2> HIDE DEF d
  <2>4. \/ Len(old) = DedupWindow
        \/ \A k \in DOMAIN d : d[k].key = NoKey \/ \E i \in DOMAIN old : old[i] = d[k].key
    BY <1>2, <2>3 DEF Remembers
  <2> QED
    BY <2>1, <2>2, <2>4 DEF Remembers, d
<1>5. CASE ~(e.key = NoKey \/ HasSeen(s, e.key))
  <2>1. e.key \in Keys
    BY <1>5 DEF Entry
  <2>2. /\ new \in Seq(Keys) /\ new # <<>>
        /\ Len(old) \in Nat /\ DOMAIN old = 1..Len(old)
        /\ Len(new) = Len(old) + 1 /\ DOMAIN new = 1..(Len(old) + 1)
        /\ \A i \in 1..Len(old) : new[i] = old[i]
        /\ new[Len(old) + 1] = e.key
    BY <2>1, AppendProperties, LenProperties
  <2>3. \A i \in DOMAIN new : \E k \in DOMAIN d : d[k].key = new[i]
    <3> SUFFICES ASSUME NEW i \in DOMAIN new PROVE \E k \in DOMAIN d : d[k].key = new[i]
      OBVIOUS
    <3>1. CASE i \in DOMAIN old
      <4>1. PICK k \in DOMAIN c : c[k].key = old[i]
        BY <3>1 DEF Remembers
      <4>2. k \in DOMAIN d /\ d[k] = c[k] /\ new[i] = old[i]
        BY <1>3, <2>2, <3>1
      <4> QED
        BY <4>1, <4>2
    <3>2. CASE i = Len(old) + 1
      BY <1>1, <1>3, <2>2, <3>2
    <3> QED
      BY <2>2, <3>1, <3>2
  <2>4. CASE Len(new) > DedupWindow
    <3>1. RecordKey(s, e.key) = Tail(new)
      BY <1>5, <2>4 DEF RecordKey
    <3>2. /\ Tail(new) \in Seq(Keys) /\ Len(Tail(new)) = Len(new) - 1
          /\ \A i \in 1..Len(Tail(new)) : Tail(new)[i] = new[i + 1]
      BY <2>2, HeadTailProperties
    <3>3. DOMAIN Tail(new) = 1..Len(Tail(new))
      BY <3>2, LenProperties
    <3>4. Len(Tail(new)) = DedupWindow
      BY <2>2, <2>4, <3>2, BusAssumption
    <3>5. \A i \in DOMAIN Tail(new) : \E j \in DOMAIN new : Tail(new)[i] = new[j]
      <4> SUFFICES ASSUME NEW i \in DOMAIN Tail(new)
                   PROVE  \E j \in DOMAIN new : Tail(new)[i] = new[j]
        OBVIOUS
      <4> HIDE DEF new
      <4>1. i + 1 \in DOMAIN new
        BY <2>2, <3>2, <3>3
      <4> QED
        BY <3>2, <3>3, <4>1
    <3> HIDE DEF new, d
    <3>6. \A i \in DOMAIN Tail(new) : \E k \in DOMAIN d : d[k].key = Tail(new)[i]
      BY <2>3, <3>5
    <3> QED
      BY <3>1, <3>4, <3>6 DEF Remembers, d
  <2>5. CASE ~(Len(new) > DedupWindow)
    <3>1. RecordKey(s, e.key) = new
      BY <1>5, <2>5 DEF RecordKey
    <3>2. Len(old) # DedupWindow
      BY <2>2, <2>5, BusAssumption
    <3>3. \A i \in DOMAIN old : i \in DOMAIN new /\ new[i] = old[i]
      BY <2>2
    <3>4. Len(old) + 1 \in DOMAIN new /\ new[Len(old) + 1] = e.key
      BY <2>2
    <3> HIDE DEF new, d
    <3>5. \A k \in DOMAIN d : d[k].key = NoKey \/ \E i \in DOMAIN new : new[i] = d[k].key
      <4> SUFFICES ASSUME NEW k \in DOMAIN d
                   PROVE  d[k].key = NoKey \/ \E i \in DOMAIN new : new[i] = d[k].key
        OBVIOUS
      <4>1. CASE k \in DOMAIN c /\ d[k] = c[k]
        <5>1. c[k].key = NoKey \/ \E i \in DOMAIN old : old[i] = c[k].key
          BY <3>2, <4>1 DEF Remembers
        <5> QED
          BY <3>3, <4>1, <5>1
      <4>2. CASE d[k] = e
        BY <3>4, <4>2
      <4> QED
        BY <1>2, <4>1, <4>2
    <3> QED
      BY <2>3, <3>1, <3>5 DEF Remembers, d
  <2> QED
    BY <2>4, <2>5
<1> QED
  BY <1>4, <1>5
\* A step that delivers nothing and enqueues nothing.
Shrinks ==
    /\ UNCHANGED <<clean, recent>>
    /\ \A s \in Subs : \A i \in DOMAIN queue'[s] :
          \E j \in DOMAIN queue[s] : queue'[s][i] = queue[s][j]
    /\ \A s \in Subs : current'[s] # NoEvent =>
          current'[s] = current[s] \/ \E j \in DOMAIN queue[s] : current'[s] = queue[s][j]

LEMMA ShrinksKeeps ==
    ASSUME TypeInv, DedupInv, Shrinks, GoneIsEmpty' PROVE DedupInv'
<1> SUFFICES ASSUME NEW s \in Idempotent PROVE DedupOf(s)'
  BY DEF DedupInv
<1>1. s \in Subs /\ DedupOf(s)
  BY BusAssumption DEF DedupInv
<1>2. clean'[s] = clean[s] /\ recent'[s] = recent[s]
  BY DEF Shrinks
<1>3. \A i \in DOMAIN queue'[s] : Excused(clean[s], queue'[s][i])
  BY <1>1 DEF Shrinks, DedupOf
<1>4. current'[s] # NoEvent => Excused(clean[s], current'[s])
  BY <1>1 DEF Shrinks, DedupOf
<1> QED
  BY <1>1, <1>2, <1>3, <1>4 DEF DedupOf

\* A subscription that starts afresh, or whose memory is gone.
LEMMA EmptyDedup ==
    ASSUME NEW s \in Subs, clean'[s] = <<>>, recent'[s] = <<>>, queue'[s] = <<>>,
           current'[s] = NoEvent
    PROVE  DedupOf(s)'
  BY DEF DedupOf, Remembers

LEMMA CancelDedup ==
    ASSUME TypeInv, DedupInv, NEW S, Cancel(S), UNCHANGED <<clean, recent>>,
           \A s \in Subs : s \notin routed' => s \notin routed \/ s \in S
    PROVE  DedupInv'
<1>1. \A s \in Subs : queue'[s] = queue[s] \/ queue'[s] = <<>>
  BY DEF Cancel
<1>2. \A s \in Subs : current'[s] = current[s] \/ current'[s] = NoEvent
  BY DEF Cancel
<1>3. Shrinks
  BY <1>1, <1>2 DEF Shrinks
<1>4. GoneIsEmpty'
  BY DEF DedupInv, GoneIsEmpty, Cancel
<1> QED
  BY <1>3, <1>4, ShrinksKeeps

\* publish appends to the queue of a routed subscription what its window does
\* not hold.
LEMMA FanOutDedup ==
    ASSUME TypeInv, WindowOK, DedupInv, NEW e \in Event, FanOut(e),
           UNCHANGED <<routed, current, recent, clean>>
    PROVE  DedupInv'
<1>1. GoneIsEmpty'
  BY DEF DedupInv, GoneIsEmpty, FanOut, Receivers
<1>2. ASSUME NEW s \in Idempotent PROVE DedupOf(s)'
  <2> DEFINE entry == [id |-> e.id, key |-> e.key, seen |-> Len(clean[s])]
  <2>1. s \in Subs /\ DedupOf(s)
    BY BusAssumption DEF DedupInv
  <2>2. clean[s] \in Seq(Entry) /\ queue[s] \in Seq(Entry) /\ recent[s] \in Seq(Keys)
    BY <2>1 DEF TypeInv, TypeOK
  <2>3. Len(clean[s]) \in Nat
    BY <2>2, LenProperties
  <2>4. entry \in Entry /\ entry.key = e.key /\ entry.seen = Len(clean[s])
    BY <2>3 DEF Event, Entry
  <2>5. CASE queue'[s] = queue[s]
    BY <2>1, <2>5 DEF DedupOf
  <2>6. CASE ~Suppressed(s, e) /\ queue'[s] = Append(queue[s], entry)
    <3> HIDE DEF entry
    <3>1. Excused(clean[s], entry)
      <4>1. CASE entry.key = NoKey
        BY <2>3, <2>4, <4>1 DEF Excused
      <4>2. CASE entry.key # NoKey
        <5>1. entry.key \in Keys /\ \A i \in DOMAIN recent[s] : recent[s][i] # entry.key
          BY <2>4, <2>6, <4>2 DEF Suppressed, HasSeen, Entry
        <5>2. entry.key \in KeysUpTo(clean[s], Len(clean[s])) =>
                 Cardinality(KeysUpTo(clean[s], Len(clean[s])) \ {NoKey, entry.key})
                    >= DedupWindow
          BY <2>1, <2>2, <5>1, ForgottenIsExcused DEF DedupOf, WindowOK
        <5> QED
          BY <2>3, <2>4, <5>2 DEF Excused
      <4> QED
        BY <4>1, <4>2
    <3>2. /\ Len(queue[s]) \in Nat /\ DOMAIN queue[s] = 1..Len(queue[s])
          /\ DOMAIN queue'[s] = 1..(Len(queue[s]) + 1)
          /\ \A i \in 1..Len(queue[s]) : queue'[s][i] = queue[s][i]
          /\ queue'[s][Len(queue[s]) + 1] = entry
      BY <2>2, <2>4, <2>6, AppendProperties, LenProperties
    <3>3. \A i \in DOMAIN queue'[s] :
             (i \in DOMAIN queue[s] /\ queue'[s][i] = queue[s][i]) \/ queue'[s][i] = entry
      BY <3>2
    <3>4. \A i \in DOMAIN queue'[s] : Excused(clean[s], queue'[s][i])
      BY <2>1, <3>1, <3>3 DEF DedupOf
    <3> QED
      BY <2>1, <3>4 DEF DedupOf
  <2> QED
    BY <2>1, <2>5, <2>6 DEF FanOut
<1> QED
  BY <1>1, <1>2 DEF DedupInv

\* A clean end of a delivery: the deliveries grow, the window follows.
LEMMA FinishDedup ==
    ASSUME TypeInv, WindowOK, DedupInv, NEW t \in Subs, FinishDelivery(t)
    PROVE  DedupInv'
<1>1. current[t] \in Entry
  BY BusAssumption DEF FinishDelivery, TypeInv, TypeOK, HandOK, Contexts
<1>2. /\ recent' = [recent EXCEPT ![t] = RecordKey(t, current[t].key)]
      /\ clean' = [clean EXCEPT ![t] = Append(@, current[t])]
      /\ current' = [current EXCEPT ![t] = NoEvent]
      /\ UNCHANGED <<queue, routed>>
  BY DEF FinishDelivery
<1>3. GoneIsEmpty'
  BY <1>2 DEF DedupInv, GoneIsEmpty, TypeInv, TypeOK
<1>4. ASSUME NEW s \in Idempotent, s # t PROVE DedupOf(s)'
  <2>1. s \in Subs /\ DedupOf(s)
    BY BusAssumption DEF DedupInv
  <2> QED
    BY <1>2, <1>4, <2>1 DEF DedupOf, TypeInv, TypeOK
<1>5. ASSUME t \in Idempotent PROVE DedupOf(t)'
  <2>1. DedupOf(t)
    BY <1>5 DEF DedupInv
  <2>2. clean[t] \in Seq(Entry) /\ queue[t] \in Seq(Entry) /\ recent[t] \in Seq(Keys)
    BY DEF TypeInv, TypeOK
  <2>3. /\ clean'[t] = Append(clean[t], current[t])
        /\ recent'[t] = RecordKey(t, current[t].key)
        /\ current'[t] = NoEvent /\ queue'[t] = queue[t]
    BY <1>2 DEF TypeInv, TypeOK
  <2>4. Remembers(clean'[t], recent'[t])
    BY <1>1, <1>5, <2>1, <2>2, <2>3, RecordKeyRemembers DEF DedupOf, WindowOK
  <2>5. /\ Len(clean[t]) \in Nat /\ DOMAIN clean[t] = 1..Len(clean[t])
        /\ clean'[t] \in Seq(Entry) /\ Len(clean'[t]) = Len(clean[t]) + 1
        /\ DOMAIN clean'[t] = 1..(Len(clean[t]) + 1)
        /\ \A i \in 1..Len(clean[t]) : clean'[t][i] = clean[t][i]
        /\ clean'[t][Len(clean[t]) + 1] = current[t]
    BY <1>1, <2>2, <2>3, AppendProperties, LenProperties
  <2>6. \A e \in Entry : Excused(clean[t], e) => Excused(clean'[t], e)
    <3>1. Len(clean[t]) <= Len(clean'[t])
      BY <2>5
    <3> QED
      BY <2>2, <2>5, <3>1, ExcusedStays
  <2>7. Excused(clean'[t], current[t])
    <3>1. current[t] # NoEvent
      BY <1>1, NoEventAssumption
    <3> QED
      BY <1>1, <2>1, <2>6, <3>1 DEF DedupOf
  <2>8. \A i \in DOMAIN queue'[t] : Excused(clean'[t], queue'[t][i])
    BY <2>1, <2>2, <2>3, <2>6, LenProperties, ElementOfSeq DEF DedupOf
  <2>9. \A i \in DOMAIN clean'[t] : Excused(clean'[t], clean'[t][i])
    <3>1. \A i \in DOMAIN clean[t] : clean[t][i] \in Entry
      BY <2>2, LenProperties, ElementOfSeq
    <3>2. \A i \in DOMAIN clean'[t] :
             (i \in DOMAIN clean[t] /\ clean'[t][i] = clean[t][i]) \/ clean'[t][i] = current[t]
      BY <2>5
    <3> QED
      BY <2>1, <2>6, <2>7, <3>1, <3>2 DEF DedupOf
  <2> QED
    BY <2>3, <2>4, <2>8, <2>9 DEF DedupOf
<1> QED
  BY <1>3, <1>4, <1>5 DEF DedupInv

LEMMA DedupStep == TypeInv /\ WindowOK /\ DedupInv /\ [Next]_vars => DedupInv'
<1> SUFFICES ASSUME TypeInv, WindowOK, DedupInv, [Next]_vars PROVE DedupInv'
  OBVIOUS
<1>a. Idempotent \subseteq Subs /\ Subs \subseteq Contexts
  BY BusAssumption DEF Contexts
<1>1. ASSUME NEW s \in Subs, Subscribe(s) PROVE DedupInv'
  <2>1. /\ queue[s] = <<>> /\ current[s] = NoEvent
        /\ routed' = routed \cup {s} /\ UNCHANGED <<queue, current>>
        /\ recent'[s] = <<>> /\ clean'[s] = <<>>
        /\ \A t \in Subs \ {s} : recent'[t] = recent[t] /\ clean'[t] = clean[t]
    BY <1>1 DEF Subscribe, DedupInv, GoneIsEmpty, TypeInv, TypeOK
  <2>2. GoneIsEmpty'
    BY <2>1 DEF DedupInv, GoneIsEmpty
  <2>3. DedupOf(s)'
    BY <2>1, EmptyDedup
  <2>4. \A t \in Idempotent \ {s} : DedupOf(t)'
    BY <1>a, <2>1 DEF DedupInv, DedupOf
  <2> QED
    BY <2>2, <2>3, <2>4 DEF DedupInv
<1>2. ASSUME NEW s \in Subs, Unsubscribe(s) PROVE DedupInv'
  BY <1>2, CancelDedup DEF Unsubscribe
<1>3. CASE Close
  BY <1>3, CancelDedup DEF Close
<1>4. CASE Crash
  <2>1. \A s \in Subs : /\ queue'[s] = <<>> /\ current'[s] = NoEvent
                        /\ recent'[s] = <<>> /\ clean'[s] = <<>>
    BY <1>4, <1>a DEF Crash, Cancel
  <2> QED
    BY <1>a, <2>1, EmptyDedup DEF DedupInv, GoneIsEmpty
<1>5. ASSUME NEW s \in Subs, Take(s) PROVE DedupInv'
  <2>1. queue[s] \in Seq(Entry) /\ queue[s] # <<>> /\ s \in routed
    BY <1>5 DEF Take, TypeInv, TypeOK
  <2>2. /\ Head(queue[s]) = queue[s][1] /\ 1 \in DOMAIN queue[s]
        /\ \A i \in DOMAIN Tail(queue[s]) :
              i + 1 \in DOMAIN queue[s] /\ Tail(queue[s])[i] = queue[s][i + 1]
    <3>1. /\ Head(queue[s]) = queue[s][1]
          /\ Len(Tail(queue[s])) = Len(queue[s]) - 1
          /\ \A i \in 1..Len(Tail(queue[s])) : Tail(queue[s])[i] = queue[s][i + 1]
          /\ Tail(queue[s]) \in Seq(Entry)
      BY <2>1, HeadTailProperties
    <3>2. /\ Len(queue[s]) \in Nat /\ Len(queue[s]) # 0 /\ DOMAIN queue[s] = 1..Len(queue[s])
          /\ DOMAIN Tail(queue[s]) = 1..Len(Tail(queue[s]))
      BY <2>1, <3>1, LenProperties, EmptySeq
    <3> QED
      BY <3>1, <3>2
  <2>3. /\ current' = [current EXCEPT ![s] = Head(queue[s])]
        /\ queue' = [queue EXCEPT ![s] = Tail(queue[s])]
        /\ UNCHANGED <<clean, recent, routed>>
    BY <1>5 DEF Take, histVars
  <2>4. Shrinks
    BY <2>2, <2>3 DEF Shrinks, TypeInv, TypeOK
  <2>5. GoneIsEmpty'
    BY <2>1, <2>3 DEF DedupInv, GoneIsEmpty, TypeInv, TypeOK
  <2> QED
    BY <2>4, <2>5, ShrinksKeeps
<1>6. ASSUME NEW topic \in Topics, NEW key \in Keys \cup {NoKey}, DirectPublish(topic, key)
      PROVE  DedupInv'
  <2>1. [id |-> nextId, topic |-> topic, key |-> key] \in Event
    BY DEF TypeInv, TypeOK, Event
  <2> QED
    BY <1>6, <2>1, FanOutDedup DEF DirectPublish
<1>7. ASSUME NEW c \in Contexts, Flush(c) PROVE DedupInv'
  <2>1. outbox[c] \in Seq(Event) /\ outbox[c] # <<>>
    BY <1>7 DEF Flush, TypeInv, TypeOK
  <2>2. Head(outbox[c]) \in Event
    BY <2>1, IdsHeadTail
  <2> QED
    BY <1>7, <2>2, FanOutDedup DEF Flush
<1>8. ASSUME NEW s \in Subs, FinishDelivery(s) PROVE DedupInv'
  BY <1>8, FinishDedup
<1>9. ASSUME UNCHANGED <<queue, recent, clean, routed>>,
             \A s \in Subs : current'[s] = current[s] \/ current'[s] = NoEvent
      PROVE  DedupInv'
  <2>1. Shrinks /\ GoneIsEmpty'
    BY <1>9 DEF Shrinks, DedupInv, GoneIsEmpty
  <2> QED
    BY <2>1, ShrinksKeeps
<1>10. ASSUME NEW c \in Contexts, Fail(c) PROVE DedupInv'
  BY <1>9, <1>10 DEF Fail
<1>11. ASSUME UNCHANGED <<queue, recent, clean, routed, current>> PROVE DedupInv'
  BY <1>9, <1>11
<1> QED
  BY <1>1, <1>2, <1>3, <1>4, <1>5, <1>6, <1>7, <1>8, <1>10, <1>11
     DEF Next, StartJob, BufferedPublish, Commit, FlushClosed, FinishJob, vars, busVars,
         histVars

\* The dedup of an idempotent subscriber (Subscription._record_key, publish):
\* a key is delivered cleanly again only when its second copy was enqueued
\* before the first was done, or a full window of other keys came between.
THEOREM DedupGuarantee == Spec => []DedupWithinWindow
<1>1. Init => DedupInv
  BY BusAssumption DEF Init, DedupInv, GoneIsEmpty, DedupOf, Remembers
<1>2. Spec => []DedupInv
  BY <1>1, DedupStep, TypeInvariant, DedupWindowCorrect, PTL DEF Spec
<1>3. TypeInv /\ DedupInv => DedupWithinWindow
  <2> SUFFICES ASSUME TypeInv, DedupInv, NEW s \in Idempotent,
                      NEW i \in DOMAIN clean[s], NEW j \in DOMAIN clean[s],
                      clean[s][i].key = clean[s][j].key, clean[s][i].key # NoKey,
                      clean[s][j].seen >= i
               PROVE  Cardinality(KeysUpTo(clean[s], clean[s][j].seen)
                                     \ {NoKey, clean[s][i].key}) >= DedupWindow
    BY DEF DedupWithinWindow, KeysUpTo
  <2>1. s \in Subs /\ clean[s] \in Seq(Entry)
    BY BusAssumption DEF TypeInv, TypeOK
  <2>2. clean[s][j] \in Entry /\ i \in 1..Len(clean[s]) /\ Len(clean[s]) \in Nat
    BY <2>1, LenProperties, ElementOfSeq
  <2>3. i \in 1..clean[s][j].seen
    BY <2>2 DEF Entry
  <2>4. clean[s][j].key \in KeysUpTo(clean[s], clean[s][j].seen)
    BY <2>3 DEF KeysUpTo
  <2> QED
    BY <2>4 DEF DedupInv, DedupOf, Excused
<1> QED
  BY <1>2, <1>3, TypeInvariant, PTL

-----------------------------------------------------------------------------
(* The bus implements its contract.  The mapping reads the events that are  *)
(* kept back off the outboxes, so these must be disjoint, and empty when no *)
(* unit of work is open; then an event leaves them once.                    *)

Single(q) == \A i, j \in DOMAIN q : q[i].id = q[j].id => i = j

IdSeq(q) == [i \in DOMAIN q |-> q[i].id]

Apart ==
    /\ \A c \in Contexts : pc[c] = "idle" => Ids(outbox[c]) = {}
    /\ \A c \in Contexts : Ids(outbox[c]) \subseteq 0..(nextId - 1)
    /\ \A c, d \in Contexts : c # d => Ids(outbox[c]) \cap Ids(outbox[d]) = {}
    /\ \A c \in Contexts : Single(outbox[c])

LEMMA SingleTail ==
    ASSUME NEW S, NEW q \in Seq(S), q # <<>>, Single(q)
    PROVE  Single(Tail(q)) /\ Ids(Tail(q)) = Ids(q) \ {Head(q).id}
<1>1. /\ Head(q) = q[1] /\ Tail(q) \in Seq(S) /\ Len(Tail(q)) = Len(q) - 1
      /\ \A i \in 1..Len(Tail(q)) : Tail(q)[i] = q[i + 1]
  BY HeadTailProperties
<1>2. /\ Len(q) \in Nat /\ Len(q) # 0 /\ DOMAIN q = 1..Len(q)
      /\ DOMAIN Tail(q) = 1..(Len(q) - 1)
  BY <1>1, LenProperties, EmptySeq
<1>3. /\ \A i \in DOMAIN Tail(q) : i + 1 \in DOMAIN q /\ i + 1 # 1 /\ Tail(q)[i] = q[i + 1]
      /\ \A i \in DOMAIN q : i = 1 \/ (i - 1 \in DOMAIN Tail(q) /\ Tail(q)[i - 1] = q[i])
      /\ 1 \in DOMAIN q
  <2>1. \A i \in DOMAIN q : i # 1 => i - 1 \in 1..(Len(q) - 1) /\ (i - 1) + 1 = i
    BY <1>2
  <2>2. \A i \in 1..(Len(q) - 1) : i + 1 \in 1..Len(q) /\ i + 1 # 1
    BY <1>2
  <2> QED
    BY <1>1, <1>2, <2>1, <2>2
<1>4. Single(Tail(q))
  <2> SUFFICES ASSUME NEW i \in DOMAIN Tail(q), NEW j \in DOMAIN Tail(q),
                      Tail(q)[i].id = Tail(q)[j].id
               PROVE  i = j
    BY DEF Single
  <2>1. i + 1 = j + 1
    BY <1>3 DEF Single
  <2> QED
    BY <1>2, <2>1
<1>5. ASSUME NEW i \in DOMAIN Tail(q) PROVE Tail(q)[i].id # Head(q).id
  BY <1>1, <1>3 DEF Single
<1>6. ASSUME NEW i \in DOMAIN q, q[i].id # Head(q).id PROVE q[i].id \in Ids(Tail(q))
  BY <1>1, <1>3, <1>6 DEF Ids
<1>7. ASSUME NEW i \in DOMAIN Tail(q) PROVE Tail(q)[i].id \in Ids(q)
  BY <1>3 DEF Ids
<1> QED
  BY <1>4, <1>5, <1>6, <1>7 DEF Ids

LEMMA SingleAppend ==
    ASSUME NEW S, NEW q \in Seq(S), NEW e \in S, Single(q), e.id \notin Ids(q)
    PROVE  Single(Append(q, e))
<1>1. /\ Len(q) \in Nat /\ DOMAIN q = 1..Len(q)
      /\ DOMAIN Append(q, e) = 1..(Len(q) + 1)
      /\ \A i \in 1..Len(q) : Append(q, e)[i] = q[i]
      /\ Append(q, e)[Len(q) + 1] = e
  BY AppendProperties, LenProperties
<1>2. \A i \in 1..(Len(q) + 1) : i \in 1..Len(q) \/ i = Len(q) + 1
  BY <1>1
<1>3. \A i \in 1..Len(q) : q[i].id # e.id
  BY <1>1 DEF Ids
<1> QED
  BY <1>1, <1>2, <1>3 DEF Single

LEMMA IdSeqAppend ==
    ASSUME NEW q \in Seq(Entry), NEW e \in Entry
    PROVE  IdSeq(Append(q, e)) = Append(IdSeq(q), e.id)
<1>1. /\ Len(q) \in Nat /\ DOMAIN q = 1..Len(q)
      /\ DOMAIN Append(q, e) = 1..(Len(q) + 1)
      /\ \A i \in 1..Len(q) : Append(q, e)[i] = q[i]
      /\ Append(q, e)[Len(q) + 1] = e
  BY AppendProperties, LenProperties
<1>2. IdSeq(q) \in Seq(Nat) /\ Len(IdSeq(q)) = Len(q)
  <2>1. \A i \in 1..Len(q) : q[i] \in Entry
    BY ElementOfSeq
  <2>2. \A i \in 1..Len(q) : q[i].id \in Nat
    BY <2>1 DEF Entry
  <2>3. IdSeq(q) = [i \in 1..Len(q) |-> q[i].id]
    BY <1>1 DEF IdSeq
  <2> QED
    BY <1>1, <2>2, <2>3
<1>3. e.id \in Nat
  BY DEF Entry
<1>4. /\ Append(IdSeq(q), e.id) \in Seq(Nat)
      /\ DOMAIN Append(IdSeq(q), e.id) = 1..(Len(q) + 1)
      /\ \A i \in 1..Len(q) : Append(IdSeq(q), e.id)[i] = IdSeq(q)[i]
      /\ Append(IdSeq(q), e.id)[Len(q) + 1] = e.id
  BY <1>2, <1>3, AppendProperties, LenProperties
<1>5. \A i \in 1..(Len(q) + 1) : i \in 1..Len(q) \/ i = Len(q) + 1
  BY <1>1
<1>6. \A i \in 1..(Len(q) + 1) : IdSeq(Append(q, e))[i] = Append(IdSeq(q), e.id)[i]
  BY <1>1, <1>4, <1>5 DEF IdSeq
<1>7. IdSeq(Append(q, e)) = [i \in 1..(Len(q) + 1) |-> IdSeq(Append(q, e))[i]]
  BY <1>1 DEF IdSeq
<1>8. Append(IdSeq(q), e.id) = [i \in 1..(Len(q) + 1) |-> Append(IdSeq(q), e.id)[i]]
  BY <1>4
<1> QED
  BY <1>6, <1>7, <1>8

LEMMA IdSeqTail ==
    ASSUME NEW q \in Seq(Entry), q # <<>>
    PROVE  /\ IdSeq(q) # <<>>
           /\ Head(IdSeq(q)) = Head(q).id
           /\ IdSeq(Tail(q)) = Tail(IdSeq(q))
<1>1. /\ Head(q) = q[1] /\ Tail(q) \in Seq(Entry) /\ Len(Tail(q)) = Len(q) - 1
      /\ \A i \in 1..Len(Tail(q)) : Tail(q)[i] = q[i + 1]
  BY HeadTailProperties
<1>2. /\ Len(q) \in Nat /\ Len(q) # 0 /\ DOMAIN q = 1..Len(q)
      /\ DOMAIN Tail(q) = 1..(Len(q) - 1)
  BY <1>1, LenProperties, EmptySeq
<1>3. IdSeq(q) \in Seq(Nat) /\ Len(IdSeq(q)) = Len(q)
  <2>1. \A i \in 1..Len(q) : q[i] \in Entry
    BY ElementOfSeq
  <2>2. \A i \in 1..Len(q) : q[i].id \in Nat
    BY <2>1 DEF Entry
  <2>3. IdSeq(q) = [i \in 1..Len(q) |-> q[i].id]
    BY <1>2 DEF IdSeq
  <2> QED
    BY <1>2, <2>2, <2>3
<1>4. IdSeq(q) # <<>>
  BY <1>2, <1>3, EmptySeq
<1>5. /\ Head(IdSeq(q)) = IdSeq(q)[1] /\ Tail(IdSeq(q)) \in Seq(Nat)
      /\ Len(Tail(IdSeq(q))) = Len(q) - 1
      /\ \A i \in 1..Len(Tail(IdSeq(q))) : Tail(IdSeq(q))[i] = IdSeq(q)[i + 1]
  BY <1>3, <1>4, HeadTailProperties
<1>6. Tail(IdSeq(q)) \in [1..(Len(q) - 1) -> Nat]
  <2>1. \A t \in Seq(Nat) : t \in [1..Len(t) -> Nat]
    BY LenProperties
  <2> QED
    BY <1>5, <2>1
<1>7. \A i \in 1..(Len(q) - 1) : i + 1 \in 1..Len(q)
  BY <1>2
<1>8. \A i \in 1..(Len(q) - 1) : IdSeq(Tail(q))[i] = Tail(IdSeq(q))[i]
  BY <1>1, <1>2, <1>5, <1>7 DEF IdSeq
<1>9. IdSeq(Tail(q)) = [i \in 1..(Len(q) - 1) |-> IdSeq(Tail(q))[i]]
  BY <1>2 DEF IdSeq
<1>10. Tail(IdSeq(q)) = [i \in 1..(Len(q) - 1) |-> Tail(IdSeq(q))[i]]
  BY <1>5, <1>6
<1>11. IdSeq(Tail(q)) = Tail(IdSeq(q))
  BY <1>8, <1>9, <1>10
<1>12. Head(IdSeq(q)) = Head(q).id
  BY <1>1, <1>2, <1>5 DEF IdSeq
<1> QED
  BY <1>4, <1>11, <1>12

\* A step that at most empties outboxes, and any of a context that turns idle.
LEMMA ApartShrinks ==
    ASSUME TypeInv, Apart, nextId' = nextId,
           \A c \in Contexts : \/ Ids(outbox'[c]) = {} /\ Single(outbox'[c])
                               \/ outbox'[c] = outbox[c] /\ (pc'[c] = "idle" => pc[c] = "idle")
    PROVE  Apart'
<1>1. \A c \in Contexts : /\ Ids(outbox'[c]) = {} \/ Ids(outbox'[c]) = Ids(outbox[c])
                          /\ pc'[c] = "idle" => Ids(outbox'[c]) = {}
                          /\ Single(outbox'[c])
  BY DEF Apart
<1> QED
  BY <1>1 DEF Apart

LEMMA SingleEmpty == Single(<<>>)
  BY DEF Single

LEMMA ApartStep == TypeInv /\ Apart /\ [Next]_vars => Apart'
<1> SUFFICES ASSUME TypeInv, Apart, [Next]_vars PROVE Apart'
  OBVIOUS
<1> USE IdsOfEmpty, SingleEmpty
<1>b. Subs \subseteq Contexts /\ Jobs \subseteq Contexts
  BY DEF Contexts
<1>t. /\ pc \in [Contexts -> {"idle", "running", "flushing"}]
      /\ outbox \in [Contexts -> Seq(Event)] /\ nextId \in Nat
  BY DEF TypeInv, TypeOK
<1>1. ASSUME NEW S, S \subseteq Contexts, Cancel(S), nextId' = nextId PROVE Apart'
  BY <1>1, <1>t, ApartShrinks DEF Cancel
<1>2. ASSUME NEW s \in Subs, Subscribe(s) \/ Unsubscribe(s) PROVE Apart'
  BY <1>1, <1>2, <1>b, ApartShrinks DEF Subscribe, Unsubscribe, uowVars
<1>3. CASE Close \/ Crash
  BY <1>1, <1>3, <1>b DEF Close, Crash
<1>4. ASSUME NEW s \in Subs, Take(s) PROVE Apart'
  BY <1>4, <1>b, <1>t, ApartShrinks DEF Take
<1>5. ASSUME NEW j \in Jobs, StartJob(j) PROVE Apart'
  BY <1>5, <1>b, <1>t, ApartShrinks DEF StartJob
<1>6. ASSUME NEW c \in Contexts, NEW topic \in Topics, NEW key \in Keys \cup {NoKey},
             BufferedPublish(c, topic, key)
      PROVE  Apart'
  <2> DEFINE e == [id |-> nextId, topic |-> topic, key |-> key]
  <2>1. e \in Event /\ e.id = nextId
    BY <1>t DEF Event
  <2>2. outbox' = [outbox EXCEPT ![c] = Append(outbox[c], e)] /\ pc' = pc
        /\ nextId' = nextId + 1 /\ pc[c] = "running"
    BY <1>6 DEF BufferedPublish
  <2> HIDE DEF e
  <2>3. nextId \notin Ids(outbox[c])
    BY <1>t DEF Apart
  <2>4. Single(outbox'[c]) /\ Ids(outbox'[c]) = Ids(outbox[c]) \cup {nextId}
    BY <1>t, <2>1, <2>2, <2>3, SingleAppend, IdsAppend DEF Apart
  <2>5. \A d \in Contexts : d # c => outbox'[d] = outbox[d]
    BY <1>t, <2>2
  <2>6. 0..nextId = 0..(nextId - 1) \cup {nextId} /\ nextId' - 1 = nextId
    BY <1>t, <2>2
  <2>7. \A d \in Contexts : nextId \notin Ids(outbox[d])
    BY <1>t DEF Apart
  <2>8. \A d \in Contexts : Ids(outbox'[d]) = Ids(outbox[d]) \/
           (d = c /\ Ids(outbox'[d]) = Ids(outbox[d]) \cup {nextId})
    BY <2>4, <2>5
  <2>9. \A d \in Contexts : Single(outbox'[d])
    BY <2>4, <2>5 DEF Apart
  <2>10. \A d \in Contexts : pc'[d] = "idle" => Ids(outbox'[d]) = {}
    BY <2>2, <2>5 DEF Apart
  <2>11. \A d \in Contexts : Ids(outbox'[d]) \subseteq 0..(nextId' - 1)
    BY <2>6, <2>8 DEF Apart
  <2>12. \A d, f \in Contexts : d # f => Ids(outbox'[d]) \cap Ids(outbox'[f]) = {}
    BY <2>7, <2>8 DEF Apart
  <2> QED
    BY <2>9, <2>10, <2>11, <2>12 DEF Apart
<1>7. ASSUME NEW topic \in Topics, NEW key \in Keys \cup {NoKey}, DirectPublish(topic, key)
      PROVE  Apart'
  <2>1. outbox' = outbox /\ pc' = pc /\ nextId' = nextId + 1
    BY <1>7 DEF DirectPublish
  <2>2. 0..(nextId - 1) \subseteq 0..(nextId' - 1)
    BY <1>t, <2>1
  <2> QED
    BY <2>1, <2>2 DEF Apart
<1>8. ASSUME NEW c \in Contexts, Commit(c) \/ Fail(c) PROVE Apart'
  BY <1>8, <1>t, ApartShrinks DEF Commit, Fail
<1>9. ASSUME NEW c \in Contexts, Flush(c) PROVE Apart'
  <2>1. outbox' = [outbox EXCEPT ![c] = Tail(outbox[c])] /\ pc' = pc
        /\ nextId' = nextId /\ outbox[c] # <<>>
    BY <1>9 DEF Flush
  <2>2. Single(outbox'[c]) /\ Ids(outbox'[c]) \subseteq Ids(outbox[c])
    BY <1>t, <2>1, SingleTail DEF Apart
  <2>3. \A d \in Contexts : d # c => outbox'[d] = outbox[d]
    BY <1>t, <2>1
  <2>4. \A d \in Contexts : Ids(outbox'[d]) \subseteq Ids(outbox[d]) /\ Single(outbox'[d])
    BY <2>2, <2>3 DEF Apart
  <2> QED
    BY <2>1, <2>4 DEF Apart
<1>10. ASSUME NEW j \in Jobs, FlushClosed(j) \/ FinishJob(j) PROVE Apart'
  BY <1>10, <1>b, <1>t, ApartShrinks DEF FlushClosed, FinishJob
<1>11. ASSUME NEW s \in Subs, FinishDelivery(s) PROVE Apart'
  BY <1>11, <1>b, <1>t, ApartShrinks DEF FinishDelivery
<1>12. CASE UNCHANGED vars
  BY <1>12, ApartShrinks DEF vars, uowVars
<1> QED
  BY <1>1, <1>2, <1>3, <1>4, <1>5, <1>6, <1>7, <1>8, <1>9, <1>10, <1>11, <1>12 DEF Next

\* A worker that waits for its queue holds nothing.
HandsFree == \A s \in Subs : pc[s] = "idle" => current[s] = NoEvent

LEMMA HandsFreeStep == TypeInv /\ HandsFree /\ [Next]_vars => HandsFree'
<1> SUFFICES ASSUME TypeInv, HandsFree, [Next]_vars, NEW s \in Subs, pc'[s] = "idle"
             PROVE  current'[s] = NoEvent
  BY DEF HandsFree
<1>1. /\ Subs \subseteq Contexts /\ Subs \cap Jobs = {}
      /\ pc \in [Contexts -> {"idle", "running", "flushing"}]
      /\ current \in [Subs -> Entry \cup {NoEvent}]
  BY BusAssumption DEF Contexts, TypeInv, TypeOK
<1>2. CASE pc'[s] = pc[s] /\ current'[s] = current[s]
  BY <1>2 DEF HandsFree
<1>3. ASSUME NEW S, Cancel(S) PROVE current'[s] = NoEvent
  BY <1>1, <1>3 DEF Cancel, HandsFree
<1>4. ASSUME NEW r \in Subs, Take(r) \/ FinishDelivery(r) PROVE current'[s] = NoEvent
  BY <1>1, <1>2, <1>4 DEF Take, FinishDelivery
<1>5. ASSUME NEW c \in Contexts, Fail(c) PROVE current'[s] = NoEvent
  BY <1>1, <1>2, <1>5 DEF Fail
<1>6. ASSUME NEW c \in Contexts, Commit(c) PROVE current'[s] = NoEvent
  BY <1>1, <1>2, <1>6 DEF Commit, busVars
<1>7. ASSUME NEW j \in Jobs, StartJob(j) \/ FlushClosed(j) \/ FinishJob(j)
      PROVE  current'[s] = NoEvent
  BY <1>1, <1>2, <1>7 DEF StartJob, FlushClosed, FinishJob, busVars
<1> QED
  BY <1>2, <1>3, <1>4, <1>5, <1>6, <1>7 DEF Next, Subscribe, Unsubscribe, Close, Crash,
     BufferedPublish, DirectPublish, Flush, busVars, uowVars, vars

LEMMA Lists ==
    /\ \A id : /\ id \in open <=> \E c \in Contexts : pc[c] = "running" /\ id \in Ids(outbox[c])
               /\ id \in due <=> \E c \in Contexts : pc[c] = "flushing" /\ id \in Ids(outbox[c])
    /\ \A id : /\ id \in open' <=> \E c \in Contexts : pc'[c] = "running" /\ id \in Ids(outbox'[c])
               /\ id \in due' <=> \E c \in Contexts : pc'[c] = "flushing" /\ id \in Ids(outbox'[c])
  BY DEF open, due, Held

\* A step of a unit of work that holds nothing moves nothing.
LEMMA ListsKept ==
    ASSUME \A c \in Contexts : /\ outbox'[c] = outbox[c]
                               /\ pc'[c] = pc[c] \/ Ids(outbox[c]) = {}
    PROVE  open' = open /\ due' = due
<1>1. \A c \in Contexts : Ids(outbox'[c]) = Ids(outbox[c])
  OBVIOUS
<1>2. ASSUME NEW id
      PROVE  /\ id \in open <=> id \in open'
             /\ id \in due <=> id \in due'
  <2>1. \A c \in Contexts : \A st : pc[c] = st /\ id \in Ids(outbox[c])
                                  <=> pc'[c] = st /\ id \in Ids(outbox'[c])
    BY <1>1
  <2>2. /\ id \in open <=> \E c \in Contexts : pc[c] = "running" /\ id \in Ids(outbox[c])
        /\ id \in due <=> \E c \in Contexts : pc[c] = "flushing" /\ id \in Ids(outbox[c])
    BY Lists
  <2>3. /\ id \in open' <=> \E c \in Contexts : pc'[c] = "running" /\ id \in Ids(outbox'[c])
        /\ id \in due' <=> \E c \in Contexts : pc'[c] = "flushing" /\ id \in Ids(outbox'[c])
    BY Lists
  <2> QED
    BY <2>1, <2>2, <2>3
<1> QED
  BY <1>2

LEMMA HandsOver ==
    ASSUME TypeInv, NEW e \in Event, FanOut(e), UNCHANGED current
    PROVE  Contract!HandOver(e.id, {s \in Receivers(e) : ~Suppressed(s, e)},
                             {s \in Receivers(e) : Suppressed(s, e)})
<1> DEFINE to == {s \in Receivers(e) : ~Suppressed(s, e)}
           spared == {s \in Receivers(e) : Suppressed(s, e)}
<1>1. handling' = handling
  BY DEF handling
<1>2. settled' = [s \in Subs |-> IF s \in spared THEN settled[s] \cup {e.id} ELSE settled[s]]
  BY DEF FanOut
<1>3. ASSUME NEW s \in Subs
      PROVE  IdSeq(queue'[s]) = IF s \in to THEN Append(IdSeq(queue[s]), e.id)
                                            ELSE IdSeq(queue[s])
  <2> DEFINE entry == [id |-> e.id, key |-> e.key, seen |-> Len(clean[s])]
  <2>1. clean[s] \in Seq(Entry) /\ queue[s] \in Seq(Entry)
    BY DEF TypeInv, TypeOK
  <2>2. entry \in Entry /\ entry.id = e.id
    BY <2>1, LenProperties DEF Event, Entry
  <2>3. queue'[s] = IF s \in to THEN Append(queue[s], entry) ELSE queue[s]
    BY DEF FanOut
  <2> HIDE DEF entry, to
  <2>4. IdSeq(Append(queue[s], entry)) = Append(IdSeq(queue[s]), e.id)
    BY <2>1, <2>2, IdSeqAppend
  <2> QED
    BY <2>3, <2>4
<1>4. waiting = [s \in Subs |-> IdSeq(queue[s])] /\ waiting' = [s \in Subs |-> IdSeq(queue'[s])]
  BY DEF waiting, IdSeq
<1> HIDE DEF to, spared
<1>5. waiting' = [s \in Subs |-> IF s \in to THEN Append(waiting[s], e.id) ELSE waiting[s]]
  BY <1>3, <1>4
<1>6. to \cap spared = {}
  BY DEF to, spared
<1>7. Contract!HandOver(e.id, to, spared)
  BY <1>1, <1>2, <1>5, <1>6 DEF Contract!HandOver
<1> QED
  BY <1>7 DEF to, spared

\* A subscription may go away, a context may lose what it holds.
LEMMA Drops ==
    ASSUME TypeInv, Apart, NEW S, S \subseteq Contexts, Cancel(S), UNCHANGED <<nextId, settled>>
    PROVE  Contract!Next
<1> DEFINE gone == UNION {Ids(outbox[c]) : c \in S}
<1>t. /\ pc \in [Contexts -> {"idle", "running", "flushing"}]
      /\ outbox \in [Contexts -> Seq(Event)]
  BY DEF TypeInv, TypeOK
<1>1. \A id : id \in gone <=> \E c \in S : id \in Ids(outbox[c])
  OBVIOUS
<1> HIDE DEF gone
<1>2. \A c \in Contexts : IF c \in S THEN pc'[c] = "idle" /\ outbox'[c] = <<>>
                          ELSE pc'[c] = pc[c] /\ outbox'[c] = outbox[c]
  BY DEF Cancel
<1>3. \A c \in Contexts : c \notin S => Ids(outbox'[c]) = Ids(outbox[c])
  BY <1>2
<1>4. gone \subseteq open \cup due
  BY <1>1, <1>t, Lists DEF Apart
<1>5. \A id, c, d : c \in Contexts /\ d \in Contexts /\ id \in Ids(outbox[c])
                    /\ id \in Ids(outbox[d]) => c = d
  BY DEF Apart
<1>6. open' = open \ gone
  <2>1. ASSUME NEW id \in open' PROVE id \in open /\ id \notin gone
    <3>1. PICK c \in Contexts : pc'[c] = "running" /\ id \in Ids(outbox'[c])
      BY Lists
    <3>2. c \notin S /\ pc[c] = "running" /\ id \in Ids(outbox[c])
      BY <1>2, <1>3, <3>1
    <3> QED
      BY <1>1, <1>5, <3>2, Lists
  <2>2. ASSUME NEW id \in open, id \notin gone PROVE id \in open'
    <3>1. PICK c \in Contexts : pc[c] = "running" /\ id \in Ids(outbox[c])
      BY Lists
    <3>2. c \notin S
      BY <1>1, <2>2, <3>1
    <3>3. pc'[c] = "running" /\ id \in Ids(outbox'[c])
      BY <1>2, <1>3, <3>1, <3>2
    <3> QED
      BY <3>3, Lists
  <2> QED
    BY <2>1, <2>2
<1>7. due' = due \ gone
  <2>1. ASSUME NEW id \in due' PROVE id \in due /\ id \notin gone
    <3>1. PICK c \in Contexts : pc'[c] = "flushing" /\ id \in Ids(outbox'[c])
      BY Lists
    <3>2. c \notin S /\ pc[c] = "flushing" /\ id \in Ids(outbox[c])
      BY <1>2, <1>3, <3>1
    <3> QED
      BY <1>1, <1>5, <3>2, Lists
  <2>2. ASSUME NEW id \in due, id \notin gone PROVE id \in due'
    <3>1. PICK c \in Contexts : pc[c] = "flushing" /\ id \in Ids(outbox[c])
      BY Lists
    <3>2. c \notin S
      BY <1>1, <2>2, <3>1
    <3>3. pc'[c] = "flushing" /\ id \in Ids(outbox'[c])
      BY <1>2, <1>3, <3>1, <3>2
    <3> QED
      BY <3>3, Lists
  <2> QED
    BY <2>1, <2>2
<1>8. /\ waiting' = [s \in Subs |-> IF s \in S \cap Subs THEN <<>> ELSE waiting[s]]
      /\ handling' = [s \in Subs |-> IF s \in S \cap Subs THEN {} ELSE handling[s]]
  <2>1. waiting = [s \in Subs |-> IdSeq(queue[s])] /\ waiting' = [s \in Subs |-> IdSeq(queue'[s])]
    BY DEF waiting, IdSeq
  <2>2. IdSeq(<<>>) = <<>>
    BY DEF IdSeq
  <2>3. queue' = [s \in Subs |-> IF s \in S THEN <<>> ELSE queue[s]]
    BY DEF Cancel
  <2>4. \A s \in Subs : queue'[s] = IF s \in S THEN <<>> ELSE queue[s]
    BY <2>3
  <2>5. \A s \in Subs : IdSeq(queue'[s]) = IF s \in S THEN <<>> ELSE IdSeq(queue[s])
    BY <2>2, <2>4
  <2>6. waiting' = [s \in Subs |-> IF s \in S \cap Subs THEN <<>> ELSE waiting[s]]
    BY <2>1, <2>5
  <2>7. handling' = [s \in Subs |-> IF s \in S \cap Subs THEN {} ELSE handling[s]]
    BY DEF handling, Cancel
  <2> QED
    BY <2>6, <2>7
<1>9. Contract!Drop(S \cap Subs, gone)
  BY <1>4, <1>6, <1>7, <1>8 DEF Contract!Drop
<1> QED
  BY <1>4, <1>9 DEF Contract!Next

LEMMA Refines == TypeInv /\ Apart /\ HandsFree /\ [Next]_vars => [Contract!Next]_(Contract!vars)
<1> SUFFICES ASSUME TypeInv, Apart, HandsFree, [Next]_vars
             PROVE  Contract!Next \/ UNCHANGED Contract!vars
  OBVIOUS
<1>b. Subs \subseteq Contexts /\ Jobs \subseteq Contexts /\ Subs \cap Jobs = {}
  BY BusAssumption DEF Contexts
<1>t. /\ pc \in [Contexts -> {"idle", "running", "flushing"}]
      /\ outbox \in [Contexts -> Seq(Event)] /\ nextId \in Nat
      /\ queue \in [Subs -> Seq(Entry)] /\ current \in [Subs -> Entry \cup {NoEvent}]
      /\ settled \in [Subs -> SUBSET Nat]
      /\ \A s \in Subs : pc[s] # "idle" => current[s] # NoEvent
  BY DEF TypeInv, TypeOK, HandOK
<1>i. \A c \in Contexts : pc[c] = "idle" => Ids(outbox[c]) = {}
  BY DEF Apart
<1>d. \A id, c, d : c \in Contexts /\ d \in Contexts /\ id \in Ids(outbox[c])
                    /\ id \in Ids(outbox[d]) => c = d
  BY DEF Apart
<1>s. ASSUME UNCHANGED <<nextId, queue, current, settled>>, open' = open, due' = due
      PROVE  UNCHANGED Contract!vars
  BY <1>s DEF Contract!vars, waiting, handling
<1>q. /\ queue' = queue => waiting' = waiting
      /\ current' = current => handling' = handling
  BY DEF waiting, handling
<1>1. ASSUME NEW S, S \subseteq Contexts, Cancel(S), UNCHANGED <<nextId, settled>>
      PROVE  Contract!Next
  BY <1>1, Drops
<1>2. ASSUME NEW s \in Subs, Subscribe(s) PROVE UNCHANGED Contract!vars
  BY <1>2, <1>s, ListsKept DEF Subscribe, uowVars
<1>3. ASSUME NEW s \in Subs, Unsubscribe(s) PROVE Contract!Next
  BY <1>1, <1>3, <1>b DEF Unsubscribe
<1>4. CASE Close \/ Crash
  BY <1>1, <1>4, <1>b DEF Close, Crash
<1>5. ASSUME NEW s \in Subs, Take(s) PROVE Contract!Next
  <2>1. outbox' = outbox /\ UNCHANGED <<nextId, settled>> /\ pc' = [pc EXCEPT ![s] = "running"]
        /\ pc[s] = "idle"
    BY <1>5 DEF Take, histVars
  <2>2. open' = open /\ due' = due
    BY <2>1, <1>b, <1>i, <1>t, ListsKept
  <2>3. queue[s] \in Seq(Entry) /\ queue[s] # <<>>
    BY <1>5, <1>t DEF Take
  <2>4. /\ IdSeq(queue[s]) # <<>>
        /\ Head(IdSeq(queue[s])) = Head(queue[s]).id
        /\ IdSeq(Tail(queue[s])) = Tail(IdSeq(queue[s]))
    BY <2>3, IdSeqTail
  <2>5. waiting = [r \in Subs |-> IdSeq(queue[r])] /\ waiting' = [r \in Subs |-> IdSeq(queue'[r])]
    BY DEF waiting, IdSeq
  <2>6. \A r \in Subs : queue'[r] = IF r = s THEN Tail(queue[s]) ELSE queue[r]
    BY <1>5, <1>t DEF Take
  <2>7. waiting' = [waiting EXCEPT ![s] = Tail(waiting[s])]
    BY <2>4, <2>5, <2>6
  <2>8. Head(queue[s]) \in Entry /\ Head(queue[s]) # NoEvent
    BY <2>3, HeadTailProperties, NoEventAssumption
  <2>9. current' = [current EXCEPT ![s] = Head(queue[s])]
    BY <1>5 DEF Take
  <2>10. handling' = [handling EXCEPT ![s] = {Head(waiting[s])}]
    BY <1>t, <2>4, <2>5, <2>8, <2>9 DEF handling
  <2>11. handling[s] = {} /\ waiting[s] # <<>>
    BY <2>1, <2>4, <2>5 DEF handling, HandsFree
  <2>12. Contract!Take(s)
    BY <2>1, <2>2, <2>7, <2>10, <2>11 DEF Contract!Take
  <2> QED
    BY <2>12 DEF Contract!Next
<1>6. ASSUME NEW j \in Jobs, StartJob(j) \/ FinishJob(j) PROVE UNCHANGED Contract!vars
  <2>1. outbox' = outbox /\ UNCHANGED <<nextId, queue, current, settled>>
        /\ \A c \in Contexts : pc'[c] = pc[c] \/ c = j
    BY <1>6, <1>t DEF StartJob, FinishJob, busVars, histVars
  <2>2. Ids(outbox[j]) = {}
    BY <1>6, <1>b, <1>i, IdsOfEmpty DEF StartJob, FinishJob
  <2>3. open' = open /\ due' = due
    BY <2>1, <2>2, ListsKept
  <2> QED
    BY <1>s, <2>1, <2>3
<1>7. ASSUME NEW c \in Contexts, NEW topic \in Topics, NEW key \in Keys \cup {NoKey},
             BufferedPublish(c, topic, key)
      PROVE  Contract!Next
  <2> DEFINE e == [id |-> nextId, topic |-> topic, key |-> key]
  <2>1. e \in Event /\ e.id = nextId
    BY <1>t DEF Event
  <2>2. outbox' = [outbox EXCEPT ![c] = Append(outbox[c], e)] /\ pc' = pc
        /\ nextId' = nextId + 1 /\ pc[c] = "running" /\ UNCHANGED <<queue, current, settled>>
    BY <1>7 DEF BufferedPublish, busVars, histVars
  <2> HIDE DEF e
  <2>3. /\ Ids(outbox'[c]) = Ids(outbox[c]) \cup {nextId}
        /\ \A d \in Contexts : d # c => Ids(outbox'[d]) = Ids(outbox[d])
    <3>1. outbox'[c] = Append(outbox[c], e) /\ \A d \in Contexts : d # c => outbox'[d] = outbox[d]
      BY <1>t, <2>2
    <3>2. Ids(Append(outbox[c], e)) = Ids(outbox[c]) \cup {nextId}
      BY <1>t, <2>1, IdsAppend
    <3> QED
      BY <3>1, <3>2
  <2>4. open' = open \cup {nextId}
    <3>1. nextId \in open'
      BY <2>2, <2>3, Lists
    <3>2. ASSUME NEW id, id # nextId PROVE id \in open' <=> id \in open
      BY <2>2, <2>3, <3>2, Lists
    <3> QED
      BY <3>1, <3>2
  <2>5. due' = due
    <3>1. ASSUME NEW id PROVE id \in due' <=> id \in due
      BY <2>2, <2>3, Lists
    <3> QED
      BY <3>1
  <2>6. Contract!Publish
    BY <1>q, <2>2, <2>4, <2>5 DEF Contract!Publish
  <2> QED
    BY <2>6 DEF Contract!Next
<1>8. ASSUME NEW e \in Event, FanOut(e), UNCHANGED current
      PROVE  \E to, spared \in SUBSET Subs : Contract!HandOver(e.id, to, spared)
  <2>1. Receivers(e) \subseteq Subs
    BY DEF Receivers, TypeInv, TypeOK
  <2>2. /\ {s \in Receivers(e) : ~Suppressed(s, e)} \in SUBSET Subs
        /\ {s \in Receivers(e) : Suppressed(s, e)} \in SUBSET Subs
    BY <2>1
  <2> QED
    BY <1>8, <2>2, HandsOver
<1>9. ASSUME NEW topic \in Topics, NEW key \in Keys \cup {NoKey}, DirectPublish(topic, key)
      PROVE  Contract!Next
  <2> DEFINE e == [id |-> nextId, topic |-> topic, key |-> key]
  <2>1. e \in Event /\ e.id = nextId
    BY <1>t DEF Event
  <2>2. FanOut(e) /\ UNCHANGED <<current, outbox, pc>> /\ nextId' = nextId + 1
    BY <1>9 DEF DirectPublish
  <2> HIDE DEF e
  <2>3. open' = open /\ due' = due
    BY <2>2, ListsKept
  <2>4. PICK to \in SUBSET Subs, spared \in SUBSET Subs : Contract!HandOver(nextId, to, spared)
    BY <1>8, <2>1, <2>2
  <2>5. Contract!PublishNow(to, spared)
    BY <2>2, <2>3, <2>4 DEF Contract!PublishNow
  <2> QED
    BY <2>5 DEF Contract!Next
<1>10. ASSUME NEW c \in Contexts, Commit(c) PROVE Contract!Next
  <2>1. /\ pc[c] = "running" /\ UNCHANGED <<outbox, nextId, queue, current, settled>>
        /\ \A d \in Contexts : pc'[d] = IF d = c THEN "flushing" ELSE pc[d]
    BY <1>10, <1>t DEF Commit, busVars
  <2>2. \A d \in Contexts : Ids(outbox'[d]) = Ids(outbox[d])
    BY <2>1
  <2>3. Ids(outbox[c]) \subseteq open
    BY <2>1, Lists
  <2>4. open' = open \ Ids(outbox[c])
    <3>1. ASSUME NEW id PROVE id \in open' <=> id \in open /\ id \notin Ids(outbox[c])
      BY <1>d, <2>1, <2>2, Lists
    <3> QED
      BY <3>1
  <2>5. due' = due \cup Ids(outbox[c])
    <3>1. ASSUME NEW id PROVE id \in due' <=> id \in due \/ id \in Ids(outbox[c])
      BY <2>1, <2>2, Lists
    <3> QED
      BY <3>1
  <2>6. Contract!Commit(Ids(outbox[c]))
    BY <1>q, <2>1, <2>3, <2>4, <2>5 DEF Contract!Commit
  <2> QED
    BY <2>3, <2>6 DEF Contract!Next
<1>11. ASSUME NEW c \in Contexts, outbox'[c] = <<>>, pc'[c] = "idle",
              \A d \in Contexts : d # c => outbox'[d] = outbox[d] /\ pc'[d] = pc[d]
       PROVE  open' = open \ Ids(outbox[c]) /\ due' = due \ Ids(outbox[c])
  <2>1. \A d \in Contexts : d # c => Ids(outbox'[d]) = Ids(outbox[d])
    BY <1>11
  <2>2. Ids(outbox'[c]) = {}
    BY <1>11, IdsOfEmpty
  <2>3. ASSUME NEW id PROVE id \in open' <=> id \in open /\ id \notin Ids(outbox[c])
    BY <1>11, <1>d, <2>1, <2>2, Lists
  <2>4. ASSUME NEW id PROVE id \in due' <=> id \in due /\ id \notin Ids(outbox[c])
    BY <1>11, <1>d, <2>1, <2>2, Lists
  <2> QED
    BY <2>3, <2>4
<1>12. ASSUME NEW s \in Subs, NEW E \in SUBSET open, pc[s] # "idle",
              current' = [current EXCEPT ![s] = NoEvent],
              settled' = [settled EXCEPT ![s] = settled[s] \cup {current[s].id}],
              UNCHANGED <<nextId, queue>>, open' = open \ E, due' = due
       PROVE  Contract!Next
  <2>1. current[s] # NoEvent
    BY <1>12, <1>b, <1>t
  <2>2. handling[s] = {current[s].id} /\ handling[s] # {}
    BY <2>1 DEF handling
  <2>3. handling' = [handling EXCEPT ![s] = {}]
    BY <1>12, <1>t DEF handling
  <2>4. settled' = [settled EXCEPT ![s] = settled[s] \cup handling[s]]
    BY <1>12, <2>2
  <2>5. Contract!Finish(s, E)
    BY <1>12, <1>q, <2>2, <2>3, <2>4 DEF Contract!Finish
  <2> QED
    BY <2>5 DEF Contract!Next
<1>13. ASSUME NEW S, NEW E, S = {}, E \subseteq open \cup due,
              open' = open \ E, due' = due \ E, UNCHANGED <<nextId, queue, current, settled>>
       PROVE  Contract!Next
  <2>1. /\ waiting' = [s \in Subs |-> IF s \in S THEN <<>> ELSE waiting[s]]
        /\ handling' = [s \in Subs |-> IF s \in S THEN {} ELSE handling[s]]
    BY <1>13 DEF waiting, handling
  <2>2. Contract!Drop(S, E)
    BY <1>13, <2>1 DEF Contract!Drop
  <2> QED
    BY <1>13, <2>2 DEF Contract!Next
<1>14. ASSUME NEW c \in Contexts, Fail(c) PROVE Contract!Next
  <2>1. /\ pc[c] = "running" /\ outbox'[c] = <<>> /\ pc'[c] = "idle"
        /\ \A d \in Contexts : d # c => outbox'[d] = outbox[d] /\ pc'[d] = pc[d]
        /\ UNCHANGED <<nextId, queue>>
    BY <1>14, <1>t DEF Fail
  <2>2. open' = open \ Ids(outbox[c]) /\ due' = due \ Ids(outbox[c])
    BY <1>11, <2>1
  <2>3. Ids(outbox[c]) \subseteq open /\ Ids(outbox[c]) \cap due = {}
    BY <1>d, <2>1, Lists
  <2>4. CASE c \in Subs
    <3>1. /\ current' = [current EXCEPT ![c] = NoEvent]
          /\ settled' = [settled EXCEPT ![c] = settled[c] \cup {current[c].id}]
      BY <1>14, <1>t, <2>4 DEF Fail
    <3> QED
      BY <1>12, <2>1, <2>2, <2>3, <2>4, <3>1
  <2>5. CASE c \notin Subs
    <3>1. UNCHANGED <<current, settled>>
      BY <1>14, <1>t, <2>5 DEF Fail
    <3> QED
      BY <1>13, <2>1, <2>2, <2>3, <3>1
  <2> QED
    BY <2>4, <2>5
<1>15. ASSUME NEW s \in Subs, FinishDelivery(s) PROVE Contract!Next
  <2>1. /\ pc[s] = "flushing" /\ outbox' = outbox /\ UNCHANGED <<nextId, queue>>
        /\ \A d \in Contexts : pc'[d] = pc[d] \/ d = s
        /\ current' = [current EXCEPT ![s] = NoEvent]
        /\ settled' = [settled EXCEPT ![s] = settled[s] \cup {current[s].id}]
    BY <1>15, <1>b, <1>t DEF FinishDelivery
  <2>2. Ids(outbox[s]) = {}
    BY <1>15, IdsOfEmpty DEF FinishDelivery
  <2>3. open' = open \ {} /\ due' = due
    BY <2>1, <2>2, ListsKept
  <2> QED
    BY <1>12, <2>1, <2>3
<1>16. ASSUME NEW j \in Jobs, FlushClosed(j) PROVE Contract!Next
  <2>1. /\ pc[j] = "flushing" /\ outbox'[j] = <<>> /\ pc'[j] = "idle"
        /\ \A d \in Contexts : d # j => outbox'[d] = outbox[d] /\ pc'[d] = pc[d]
        /\ UNCHANGED <<nextId, queue, current, settled>>
    BY <1>16, <1>b, <1>t DEF FlushClosed, busVars
  <2>2. open' = open \ Ids(outbox[j]) /\ due' = due \ Ids(outbox[j])
    BY <1>11, <1>b, <2>1
  <2>3. Ids(outbox[j]) \subseteq open \cup due
    BY <1>b, <2>1, Lists
  <2> QED
    BY <1>13, <2>1, <2>2, <2>3
<1>17. ASSUME NEW c \in Contexts, Flush(c) PROVE Contract!Next
  <2> DEFINE e == Head(outbox[c])
  <2>1. /\ pc[c] = "flushing" /\ outbox[c] # <<>> /\ FanOut(e)
        /\ UNCHANGED <<current, nextId, pc>>
        /\ outbox'[c] = Tail(outbox[c]) /\ \A d \in Contexts : d # c => outbox'[d] = outbox[d]
    BY <1>17, <1>t DEF Flush
  <2>2. e \in Event /\ e.id \in Ids(outbox[c])
    BY <1>t, <2>1, IdsHeadTail
  <2>3. Ids(Tail(outbox[c])) = Ids(outbox[c]) \ {e.id}
    BY <1>t, <2>1, SingleTail DEF Apart
  <2> HIDE DEF e
  <2>4. Ids(outbox'[c]) = Ids(outbox[c]) \ {e.id}
        /\ \A d \in Contexts : d # c => Ids(outbox'[d]) = Ids(outbox[d])
    BY <2>1, <2>3
  <2>5. open' = open
    <3>1. ASSUME NEW id PROVE id \in open' <=> id \in open
      BY <2>1, <2>4, Lists
    <3> QED
      BY <3>1
  <2>6. due' = due \ {e.id}
    <3>1. ASSUME NEW d \in Contexts, e.id \in Ids(outbox'[d]) PROVE FALSE
      BY <1>d, <2>2, <2>4, <3>1
    <3>2. e.id \notin due'
      BY <3>1, Lists
    <3>3. ASSUME NEW id, id # e.id PROVE id \in due' <=> id \in due
      <4>1. \A d \in Contexts : id \in Ids(outbox'[d]) <=> id \in Ids(outbox[d])
        BY <2>4, <3>3
      <4> QED
        BY <2>1, <4>1, Lists
    <3> QED
      BY <3>2, <3>3
  <2>7. e.id \in due
    BY <2>1, <2>2, Lists
  <2>8. PICK to \in SUBSET Subs, spared \in SUBSET Subs : Contract!HandOver(e.id, to, spared)
    BY <1>8, <2>1, <2>2
  <2>9. Contract!FanOut(e.id, to, spared)
    BY <2>1, <2>5, <2>6, <2>7, <2>8 DEF Contract!FanOut
  <2> QED
    BY <2>7, <2>9 DEF Contract!Next
<1>18. CASE UNCHANGED vars
  BY <1>18, <1>s, ListsKept DEF vars, busVars, uowVars, histVars
<1> QED
  BY <1>2, <1>3, <1>4, <1>5, <1>6, <1>7, <1>9, <1>10, <1>14, <1>15, <1>16, <1>17, <1>18
     DEF Next

LEMMA InitRefines == Init => Contract!Init /\ Apart /\ HandsFree
<1> SUFFICES ASSUME Init PROVE Contract!Init /\ Apart /\ HandsFree
  OBVIOUS
<1>1. \A c \in Contexts : outbox[c] = <<>>
  BY DEF Init
<1>2. \A c \in Contexts : Ids(outbox[c]) = {} /\ Single(outbox[c])
  BY <1>1, IdsOfEmpty, SingleEmpty
<1>3. Apart /\ HandsFree
  BY <1>2 DEF Init, Apart, HandsFree
<1>4. open = {} /\ due = {}
  BY <1>2, Lists
<1>5. waiting = [s \in Subs |-> <<>>] /\ handling = [s \in Subs |-> {}]
  <2>1. \A s \in Subs : [i \in DOMAIN queue[s] |-> queue[s][i].id] = <<>>
    BY DEF Init
  <2>2. \A s \in Subs : current[s] = NoEvent
    BY DEF Init
  <2> QED
    BY <2>1, <2>2 DEF waiting, handling
<1> QED
  BY <1>3, <1>4, <1>5 DEF Init, Contract!Init

\* The bus implements its contract: events are kept back until the commit,
\* handed over once, and every subscriber goes through them in order
\* (publish, run_in_session_scope and the worker loop).
THEOREM Refinement == Spec => ImplementsContract
<1>1. Init => TypeInv /\ Apart /\ HandsFree /\ Contract!Init
  BY InitTypeInv, InitRefines
<1>2. TypeInv /\ Apart /\ HandsFree /\ [Next]_vars
      => (TypeInv /\ Apart /\ HandsFree)' /\ [Contract!Next]_(Contract!vars)
  BY NextTypeInv, ApartStep, HandsFreeStep, Refines
<1> QED
  BY <1>1, <1>2, PTL DEF Spec, ImplementsContract, Contract!Spec

===============================================================================

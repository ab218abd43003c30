-------------------------- MODULE RiskControlProofs --------------------------
(***************************************************************************)
(* Theorems about RiskControl, for any daemons, terminals, chats, caps,    *)
(* inputs and bounds.                                                      *)
(***************************************************************************)
EXTENDS RiskControl, TLAPS

\* A set of protections that do not allow has a first.
LEMMA FirstHit ==
    ASSUME NEW S \in SUBSET (1..7), S # {}
    PROVE  Min(S) \in S /\ \A y \in S : Min(S) <= y
<1>1. \E x \in S : \A y \in S : x <= y
  <2>1. CASE 1 \in S
    BY <2>1
  <2>2. CASE 1 \notin S /\ 2 \in S
    BY <2>2
  <2>3. CASE 1 \notin S /\ 2 \notin S /\ 3 \in S
    BY <2>3
  <2>4. CASE S \cap {1, 2, 3} = {} /\ 4 \in S
    BY <2>4
  <2>5. CASE S \cap {1, 2, 3, 4} = {} /\ 5 \in S
    BY <2>5
  <2>6. CASE S \cap {1, 2, 3, 4, 5} = {} /\ 6 \in S
    BY <2>6
  <2>7. CASE \A y \in S : y = 7
    <3>1. PICK x \in S : TRUE
      OBVIOUS
    <3>2. x = 7 /\ \A y \in S : x <= y
      BY <2>7
    <3>3. QED
      BY <3>2
  <2>8. \A y \in S : y = 1 \/ y = 2 \/ y = 3 \/ y = 4 \/ y = 5 \/ y = 6 \/ y = 7
    OBVIOUS
  <2>9. QED
    BY <2>1, <2>2, <2>3, <2>4, <2>5, <2>6, <2>7, <2>8
<1>2. QED
  BY <1>1 DEF Min

\* engine.evaluate returns "allow" or a cap.
LEMMA EngineType == \A n : Evaluate(n) \in Outcomes
<1> SUFFICES ASSUME NEW n PROVE Evaluate(n) \in Outcomes
  OBVIOUS
<1> DEFINE hits == {i \in 1..7 : Breached(CapOrder[i], n)}
<1>1. CASE hits = {}
  BY <1>1 DEF Evaluate, Outcomes
<1>2. CASE hits # {}
  <2>1. Min(hits) \in 1..7
    BY <1>2, FirstHit
  <2>2. CapOrder[Min(hits)] \in Outcomes
    BY <2>1 DEF Outcomes, CapTypes
  <2>3. QED
    BY <1>2, <2>2 DEF Evaluate
<1>3. QED
  BY <1>1, <1>2

\* A later tick is of the same or a later day.
LEMMA DayMonotone ==
    ASSUME NEW a \in Nat, NEW b \in Nat, a <= b
    PROVE  Day(a) <= Day(b)
BY RiskAssumption DEF Day

LEMMA DayType == \A a \in Nat : Day(a) \in Nat
BY RiskAssumption DEF Day

-----------------------------------------------------------------------------
(* Type correctness, with the shape of a unit of work.                     *)

Drafts ==
    /\ \A o \in Operators :
          /\ pc[o] \in {"idle", "stamped", "done"}
          /\ pc[o] # "idle" => draft[o] # <<>>
          /\ draft[o] # <<>> =>
                draft[o][1].source \in {"cli", "channel_command"}
    /\ \A d \in Daemons :
          /\ pc[d] # "stamped"
          /\ draft[d] # <<>> =>
                /\ pc[d] = "done"
                /\ draft[d][1].source = "automatic_cap_breach"
                /\ draft[d][1].transition = "activated"

TInv == TypeOK /\ Drafts

LEMMA Disjoint == /\ Daemons \cap Operators = {} /\ Chats \cap Daemons = {}
                  /\ Workers = Daemons \cup Operators /\ Chats \subseteq Operators
BY RiskAssumption DEF Operators, Workers

LEMMA EventType ==
    ASSUME NEW tr \in Transitions, NEW s, NEW at \in Nat,
           s \in {"cli", "channel_command", "automatic_cap_breach"}
    PROVE  /\ Event(tr, s, at) \in EventsT
           /\ <<Event(tr, s, at)>> \in Seq(EventsT)
           /\ Len(<<Event(tr, s, at)>>) = 1
           /\ <<Event(tr, s, at)>> # <<>>
           /\ <<Event(tr, s, at)>>[1] = Event(tr, s, at)
BY DEF Event, EventsT

LEMMA TInit == Init => TInv
<1> SUFFICES ASSUME Init PROVE TInv
  OBVIOUS
<1>1. TypeOK
  <2>1. FirstTick \in Nat
    BY RiskAssumption
  <2>2. draft \in [Workers -> Seq(EventsT)] /\ \A w \in Workers : Len(draft[w]) <= 1
    BY DEF Init
  <2>3. \A w \in Workers : lock = w <=> pc[w] \in {"saved", "tripping", "done"}
    BY RiskAssumption DEF Init
  <2>4. QED
    BY <2>1, <2>2, <2>3 DEF Init, TypeOK, Outcomes, Transitions
<1>2. Drafts
  BY Disjoint DEF Init, Drafts
<1>3. QED
  BY <1>1, <1>2 DEF TInv

\* Type correctness in two parts: the write lock with the steps of the
\* workers, and the rest.
Held == {"saved", "tripping", "done"}
Steps == Held \cup {"idle", "gated", "decided", "stamped"}

Locking ==
    /\ pc \in [Workers -> Steps]
    /\ lock \in Workers \cup {None}
    /\ \A w \in Workers : lock = w <=> pc[w] \in Held

Rest ==
    /\ now \in Nat /\ positions \in Nat
    /\ closes \in Seq([at : Nat, pnl : Int, stop : BOOLEAN])
    /\ equity \in Seq([mode : Accounts, value : Int])
    /\ log \in Seq(EventsT)
    /\ cache \in [active : BOOLEAN, last : Nat]
    /\ decision \in [Daemons -> Outcomes]
    /\ stamp \in [Workers -> Nat]
    /\ draft \in [Workers -> Seq(EventsT)]
    /\ \A w \in Workers : Len(draft[w]) <= 1
    /\ seen \in [Chats -> SUBSET (Transitions \X Nat)]
    /\ told \in [Chats -> Transitions \cup {None}]
    /\ announced \in SUBSET Nat /\ breaches \in SUBSET Nat
    /\ late \in [Daemons -> Nat]
    /\ commands \in Nat /\ faults \in Nat

LEMMA Parts == /\ TypeOK => Locking /\ Rest
               /\ Locking' /\ Rest' => TypeOK'
BY DEF TypeOK, Locking, Rest, Steps, Held

\* A step of one worker keeps the lock with exactly one holder.
LEMMA OneHolder ==
    ASSUME Locking, NEW w \in Workers, NEW p \in Steps,
           pc' = [pc EXCEPT ![w] = p],
           \/ lock' = lock /\ (p \in Held <=> lock = w)
           \/ lock' = w /\ lock = None /\ p \in Held
           \/ lock' = (IF lock = w THEN None ELSE lock) /\ p \notin Held
    PROVE  Locking'
<1>1. pc' \in [Workers -> Steps] /\ lock' \in Workers \cup {None} /\ None \notin Workers
  BY RiskAssumption DEF Locking
<1>2. ASSUME NEW x \in Workers PROVE lock' = x <=> pc'[x] \in Held
  <2>1. CASE x = w
    BY <1>1, <2>1 DEF Locking
  <2>2. CASE x # w
    BY <1>1, <2>2 DEF Locking
  <2>3. QED
    BY <2>1, <2>2
<1>3. QED
  BY <1>1, <1>2 DEF Locking

LEMMA TStep == TInv /\ [Next]_vars => TInv'
<1> SUFFICES ASSUME TInv, [Next]_vars PROVE TInv'
  OBVIOUS
<1> USE Disjoint
<1>0. TypeOK /\ Drafts
  BY DEF TInv
<1>1. CASE UNCHANGED vars
  BY <1>0, <1>1 DEF TInv, TypeOK, Drafts, vars, tradeVars, switchVars,
     workVars, chatVars, histVars
<1>2. ASSUME NEW d \in Daemons, Gate(d) PROVE TInv'
  <2>1. pc' = [pc EXCEPT ![d] = "gated"] /\ lock' = lock
    BY <1>2 DEF Gate
  <2>2. lock # d
    BY <1>0, <1>2 DEF Gate, TypeOK
  <2>3. TypeOK'
    <3>1. Locking'
      BY <1>0, <2>1, <2>2, OneHolder, Parts DEF Steps, Held
    <3>2. Rest'
      BY <1>0, <1>2, Parts DEF Gate, Rest, tradeVars,
         switchVars, workVars, chatVars, histVars
    <3>3. QED
      BY <3>1, <3>2, Parts
  <2>4. Drafts'
    BY <1>0, <1>2 DEF Gate, TypeOK, Drafts, workVars
  <2>5. QED
    BY <2>3, <2>4 DEF TInv
<1>3. ASSUME NEW d \in Daemons, NEW n \in Notionals, Load(d, n) PROVE TInv'
  <2>1. pc' = [pc EXCEPT ![d] = "decided"] /\ lock' = lock
    BY <1>3 DEF Load
  <2>2. lock # d
    BY <1>0, <1>3 DEF Load, TypeOK
  <2>3. /\ decision' \in [Daemons -> Outcomes] /\ stamp' \in [Workers -> Nat]
    BY <1>0, <1>3, EngineType DEF Load, TypeOK
  <2>4. TypeOK'
    <3>1. Locking'
      BY <1>0, <2>1, <2>2, OneHolder, Parts DEF Steps, Held
    <3>2. Rest'
      BY <1>0, <1>3, <2>3, Parts DEF Load, Rest, tradeVars,
         switchVars, chatVars, histVars
    <3>3. QED
      BY <3>1, <3>2, Parts
  <2>5. Drafts'
    BY <1>0, <1>3 DEF Load, TypeOK, Drafts
  <2>6. QED
    BY <2>4, <2>5 DEF TInv
<1>4. ASSUME NEW d \in Daemons, Save(d) PROVE TInv'
  <2> DEFINE p == IF decision[d] \in Regime THEN "saved" ELSE "done"
  <2>1. pc' = [pc EXCEPT ![d] = p] /\ lock' = d /\ lock = None
    BY <1>4 DEF Save
  <2>2. p \in {"saved", "done"}
    OBVIOUS
  <2> HIDE DEF p
  <2>3. TypeOK'
    <3>1. Locking'
      BY <1>0, <2>1, <2>2, OneHolder, Parts DEF Steps, Held
    <3>2. Rest'
      BY <1>0, <1>4, Parts DEF Save, Rest, tradeVars,
         switchVars, workVars, chatVars, histVars
    <3>3. QED
      BY <3>1, <3>2, Parts
  <2>4. Drafts'
    BY <1>0, <1>4, <2>1, <2>2 DEF Save, TypeOK, Drafts, workVars
  <2>5. QED
    BY <2>3, <2>4 DEF TInv
<1>5. ASSUME NEW d \in Daemons, Check(d) PROVE TInv'
  <2> DEFINE p == IF AutoToday THEN "done" ELSE "tripping"
  <2>1. pc' = [pc EXCEPT ![d] = p] /\ lock' = lock
    BY <1>5 DEF Check
  <2>2. p \in {"tripping", "done"} /\ lock = d
    BY <1>0, <1>5 DEF Check, TypeOK
  <2> HIDE DEF p
  <2>3. TypeOK'
    <3>1. Locking'
      BY <1>0, <2>1, <2>2, OneHolder, Parts DEF Steps, Held
    <3>2. Rest'
      BY <1>0, <1>5, Parts DEF Check, Rest, tradeVars,
         switchVars, workVars, chatVars, histVars
    <3>3. QED
      BY <3>1, <3>2, Parts
  <2>4. Drafts'
    BY <1>0, <1>5, <2>1, <2>2 DEF Check, TypeOK, Drafts, workVars
  <2>5. QED
    BY <2>3, <2>4 DEF TInv
<1>6. ASSUME NEW d \in Daemons, Trip(d) PROVE TInv'
  <2> DEFINE e == Event("activated", "automatic_cap_breach", now)
  <2>1. pc' = [pc EXCEPT ![d] = "done"] /\ lock' = lock
    BY <1>6 DEF Trip
  <2>2. lock = d
    BY <1>0, <1>6 DEF Trip, TypeOK
  <2>3. /\ e \in EventsT /\ <<e>> \in Seq(EventsT) /\ Len(<<e>>) = 1
        /\ <<e>> # <<>> /\ <<e>>[1] = e
    BY <1>0, EventType DEF TypeOK, Transitions
  <2>4. e.transition = "activated" /\ e.source = "automatic_cap_breach"
    BY DEF Event
  <2>5. draft' = [draft EXCEPT ![d] = <<e>>]
    BY <1>6 DEF Trip
  <2> HIDE DEF e
  <2>6. draft' \in [Workers -> Seq(EventsT)] /\ \A w \in Workers : Len(draft'[w]) <= 1
    BY <1>0, <2>3, <2>5 DEF TypeOK
  <2>7. TypeOK'
    <3>1. Locking'
      BY <1>0, <2>1, <2>2, OneHolder, Parts DEF Steps, Held
    <3>2. Rest'
      BY <1>0, <1>6, <2>6, Parts DEF Trip, Rest, tradeVars,
         switchVars, chatVars, histVars
    <3>3. QED
      BY <3>1, <3>2, Parts
  <2>8. Drafts'
    BY <1>0, <1>6, <2>1, <2>3, <2>4, <2>5 DEF Trip, TypeOK, Drafts
  <2>9. QED
    BY <2>7, <2>8 DEF TInv
<1>7. ASSUME NEW o \in Operators, NEW tr \in Transitions, Submit(o, tr),
             pc[o] = "idle"
      PROVE  TInv'
  <2> DEFINE e == Event(tr, Source(o), now)
  <2>1. pc' = [pc EXCEPT ![o] = "stamped"] /\ lock' = lock
    BY <1>7 DEF Submit
  <2>2. lock # o
    BY <1>0, <1>7 DEF TypeOK
  <2>3. Source(o) \in {"cli", "channel_command"}
    BY DEF Source
  <2>4. /\ e \in EventsT /\ <<e>> \in Seq(EventsT) /\ Len(<<e>>) = 1
        /\ <<e>> # <<>> /\ <<e>>[1] = e
    BY <1>0, <2>3, EventType DEF TypeOK
  <2>5. e.source \in {"cli", "channel_command"}
    BY <2>3 DEF Event
  <2>6. draft' = [draft EXCEPT ![o] = <<e>>]
    BY <1>7 DEF Submit
  <2> HIDE DEF e
  <2>7. draft' \in [Workers -> Seq(EventsT)] /\ \A w \in Workers : Len(draft'[w]) <= 1
    BY <1>0, <2>4, <2>6 DEF TypeOK
  <2>8. TypeOK'
    <3>1. Locking'
      <4>1. Locking /\ "stamped" \in Steps /\ "stamped" \notin Held
        BY <1>0, Parts DEF Steps, Held
      <4>2. QED
        BY <2>1, <2>2, <4>1, OneHolder
    <3>2. Rest'
      <4>1. UNCHANGED <<now, positions, closes, equity, log, cache, announced,
                        decision, stamp, seen, told, breaches, late, faults>>
        BY <1>7 DEF Submit, tradeVars, switchVars, histVars
      <4>2. commands' \in Nat
        BY <1>0, <1>7, Parts DEF Submit, Rest
      <4>3. QED
        BY <1>0, <2>7, <4>1, <4>2, Parts DEF Rest
    <3>3. QED
      BY <3>1, <3>2, Parts
  <2>9. Drafts'
    BY <1>0, <1>7, <2>1, <2>4, <2>5, <2>6 DEF TypeOK, Drafts
  <2>10. QED
    BY <2>8, <2>9 DEF TInv
<1>8. ASSUME NEW o \in Operators, NEW tr \in Transitions, Command(o, tr)
      PROVE  TInv'
  <2>1. CASE Submit(o, tr)
    BY <1>7, <1>8, <2>1 DEF Command
  <2>2. CASE o \in Chats /\ told' = [told EXCEPT ![o] = tr] /\ commands' = commands + 1
             /\ UNCHANGED <<now, tradeVars, switchVars, lock, pc, workVars,
                            seen, histVars, faults>>
    BY <1>0, <2>2 DEF TInv, TypeOK, Drafts, tradeVars, switchVars, workVars,
       histVars
  <2>3. QED
    BY <1>8, <2>1, <2>2 DEF Command
<1>9. ASSUME NEW o \in Operators, AppendEvent(o) PROVE TInv'
  <2>1. pc' = [pc EXCEPT ![o] = "done"] /\ lock' = o /\ lock = None
    BY <1>9 DEF AppendEvent
  <2>2. TypeOK'
    <3>1. Locking'
      BY <1>0, <2>1, OneHolder, Parts DEF Steps, Held
    <3>2. Rest'
      BY <1>0, <1>9, Parts DEF AppendEvent, Rest, tradeVars,
         switchVars, workVars, chatVars, histVars
    <3>3. QED
      BY <3>1, <3>2, Parts
  <2>3. Drafts'
    BY <1>0, <1>9, <2>1 DEF AppendEvent, TypeOK, Drafts, workVars
  <2>4. QED
    BY <2>2, <2>3 DEF TInv
<1>10. ASSUME NEW w \in Workers, Commit(w) PROVE TInv'
  <2>1. pc' = [pc EXCEPT ![w] = "idle"] /\ lock = w /\ lock' = None
    BY <1>0, <1>10 DEF Commit, TypeOK
  <2>2. Forget(w)
    BY <1>10 DEF Commit
  <2>3. draft' = [draft EXCEPT ![w] = <<>>]
    BY <2>2 DEF Forget
  <2>4. draft' \in [Workers -> Seq(EventsT)] /\ \A x \in Workers : Len(draft'[x]) <= 1
    BY <1>0, <2>3 DEF TypeOK
  <2>5. FirstTick \in Nat
    BY RiskAssumption
  <2>6. stamp' \in [Workers -> Nat] /\ decision' \in [Daemons -> Outcomes]
    BY <1>0, <2>2, <2>5 DEF Forget, TypeOK, Outcomes
  <2>7. /\ log' \in Seq(EventsT)
        /\ cache' \in [active : BOOLEAN, last : Nat]
        /\ announced' \in SUBSET Nat
        /\ seen' \in [Chats -> SUBSET (Transitions \X Nat)]
        /\ told' \in [Chats -> Transitions \cup {None}]
        /\ late' \in [Daemons -> Nat]
    <3>1. CASE CommitEvent(w)
      <4> DEFINE e == draft[w][1]
      <4>1. e \in EventsT
        BY <1>0, <3>1 DEF CommitEvent, TypeOK
      <4>2. Record(w, e) /\ Answer(w, e)
        BY <3>1 DEF CommitEvent
      <4>3. late' \in [Daemons -> Nat]
        BY <1>0, <3>1 DEF CommitEvent, TypeOK
      <4> HIDE DEF e
      <4>4. e.transition \in Transitions /\ e.at \in Nat /\ Activates(e) \in BOOLEAN
        BY <4>1 DEF EventsT, Activates
      <4>5. Len(log) \in Nat
        BY <1>0 DEF TypeOK
      <4>6. /\ log' \in Seq(EventsT)
            /\ cache' \in [active : BOOLEAN, last : Nat]
            /\ announced' \in SUBSET Nat
        BY <1>0, <4>1, <4>2, <4>4, <4>5 DEF Record, TypeOK
      <4>7. /\ seen' \in [Chats -> SUBSET (Transitions \X Nat)]
            /\ told' \in [Chats -> Transitions \cup {None}]
        <5>1. <<e.transition, e.at>> \in Transitions \X Nat
          BY <4>4
        <5>2. CASE w \in Chats
          <6>1. /\ told' = [told EXCEPT ![w] = e.transition]
                /\ seen' = [seen EXCEPT ![w] = seen[w] \cup {<<e.transition, e.at>>}]
            BY <4>2, <5>2 DEF Answer
          <6>2. told' \in [Chats -> Transitions \cup {None}]
            BY <1>0, <4>4, <6>1 DEF TypeOK
          <6>3. seen' \in [Chats -> SUBSET (Transitions \X Nat)]
            BY <1>0, <5>1, <6>1 DEF TypeOK
          <6>4. QED
            BY <6>2, <6>3
        <5>3. CASE w \notin Chats
          BY <1>0, <4>2, <5>3 DEF Answer, TypeOK
        <5>4. QED
          BY <5>2, <5>3
      <4>8. QED
        BY <4>3, <4>6, <4>7
    <3>2. CASE CommitPlain(w)
      BY <1>0, <3>2 DEF CommitPlain, TypeOK, switchVars
    <3>3. QED
      BY <1>10, <3>1, <3>2 DEF Commit
  <2>8. breaches' \in SUBSET Nat
    <3>1. Day(stamp[w]) \in Nat
      BY <1>0, DayType DEF TypeOK
    <3>2. QED
      BY <1>0, <1>10, <3>1 DEF Commit, TypeOK
  <2>9. TypeOK'
    <3>1. Locking'
      BY <1>0, <2>1, OneHolder, Parts DEF Steps, Held
    <3>2. Rest'
      BY <1>0, <1>10, <2>4, <2>6, <2>7, <2>8, Parts DEF Commit, Rest, tradeVars
    <3>3. QED
      BY <3>1, <3>2, Parts
  <2>10. Drafts'
    BY <1>0, <2>1, <2>3 DEF TypeOK, Drafts
  <2>11. QED
    BY <2>9, <2>10 DEF TInv
<1>11. ASSUME NEW w \in Workers, Fail(w) PROVE TInv'
  <2>1. /\ pc' = [pc EXCEPT ![w] = "idle"]
        /\ lock' = IF lock = w THEN None ELSE lock
    BY <1>11 DEF Fail
  <2>2. Forget(w)
    BY <1>11 DEF Fail
  <2>3. draft' = [draft EXCEPT ![w] = <<>>]
    BY <2>2 DEF Forget
  <2>4. draft' \in [Workers -> Seq(EventsT)] /\ \A x \in Workers : Len(draft'[x]) <= 1
    BY <1>0, <2>3 DEF TypeOK
  <2>5. FirstTick \in Nat
    BY RiskAssumption
  <2>6. stamp' \in [Workers -> Nat] /\ decision' \in [Daemons -> Outcomes]
    BY <1>0, <2>2, <2>5 DEF Forget, TypeOK, Outcomes
  <2>7. Locking'
    <3>1. Locking /\ "idle" \in Steps /\ "idle" \notin Held
      BY <1>0, Parts DEF Steps, Held
    <3>2. QED
      BY <2>1, <3>1, OneHolder
  <2>8. TypeOK'
    <3>1. Rest'
      <4>1. UNCHANGED <<now, positions, closes, equity, log, cache, announced,
                        seen, told, commands, breaches, late>>
        BY <1>11 DEF Fail, tradeVars, switchVars, chatVars, histVars
      <4>2. faults' \in Nat
        BY <1>0, <1>11, Parts DEF Fail, Rest
      <4>3. QED
        BY <1>0, <2>4, <2>6, <4>1, <4>2, Parts DEF Rest
    <3>2. QED
      BY <2>7, <3>1, Parts
  <2>9. Drafts'
    BY <1>0, <2>1, <2>3 DEF TypeOK, Drafts
  <2>10. QED
    BY <2>8, <2>9 DEF TInv
<1>12. ASSUME NEW c \in Chats, Show(c) PROVE TInv'
  BY <1>0, <1>12 DEF Show, TInv, TypeOK, Drafts, tradeVars, switchVars,
     workVars, histVars
<1>13. CASE Tick
  BY <1>0, <1>13 DEF Tick, TInv, TypeOK, Drafts, tradeVars, switchVars,
     workVars, chatVars, histVars
<1>14. CASE Open
  BY <1>0, <1>14 DEF Open, TInv, TypeOK, Drafts, switchVars, workVars,
     chatVars, histVars
<1>15. ASSUME NEW pnl \in Results, Close(pnl) PROVE TInv'
  <2>1. [at |-> now, pnl |-> pnl, stop |-> pnl < 0] \in [at : Nat, pnl : Int, stop : BOOLEAN]
    BY <1>0, RiskAssumption DEF TypeOK
  <2>2. closes' \in Seq([at : Nat, pnl : Int, stop : BOOLEAN]) /\ positions' \in Nat
    BY <1>0, <1>15, <2>1 DEF Close, TypeOK
  <2>3. QED
    BY <1>0, <1>15, <2>2 DEF Close, TInv, TypeOK, Drafts, switchVars,
       workVars, chatVars, histVars
<1>16. ASSUME NEW m \in Accounts, NEW v \in Equities, Snapshot(m, v) PROVE TInv'
  <2>1. equity' \in Seq([mode : Accounts, value : Int])
    BY <1>0, <1>16, RiskAssumption DEF Snapshot, TypeOK
  <2>2. QED
    BY <1>0, <1>16, <2>1 DEF Snapshot, TInv, TypeOK, Drafts, switchVars,
       workVars, chatVars, histVars
<1>17. QED
  BY <1>1, <1>2, <1>3, <1>4, <1>5, <1>6, <1>8, <1>9, <1>10, <1>11, <1>12,
     <1>13, <1>14, <1>15, <1>16 DEF Next, EvaluateNext, OperatorNext

\* Values stay of their types and the write lock has exactly one holder, a
\* worker between its first flush and its commit (get_db, SQLite).
THEOREM TypeCorrect == Spec => []TypeOK
<1>1. Init => TInv
  BY TInit
<1>2. TInv /\ [Next]_vars => TInv'
  BY TStep
<1>3. TInv => TypeOK
  BY DEF TInv
<1>4. QED
  BY <1>1, <1>2, <1>3, PTL DEF Spec

-----------------------------------------------------------------------------
(* The cache is the fold of the log.                                       *)

\* Only a commit writes the switch and the histories.
LEMMA OnlyCommits ==
    [Next]_vars => \/ \E w \in Workers : Commit(w)
                   \/ UNCHANGED <<log, cache, announced, breaches, late>>
BY DEF Next, EvaluateNext, OperatorNext, Gate, Load, Save, Check, Trip,
   Command, Submit, AppendEvent, Show, Fail, Tick, Open, Close, Snapshot,
   vars, switchVars, histVars

\* Only a trip and a command draft an event; the end of a unit forgets it.
LEMMA OnlyDrafts ==
    [Next]_vars => \/ \E d \in Daemons : Trip(d)
                   \/ \E o \in Operators, tr \in Transitions : Submit(o, tr)
                   \/ \E w \in Workers : Forget(w)
                   \/ UNCHANGED draft
BY DEF Next, EvaluateNext, OperatorNext, Gate, Load, Save, Check, Command,
   AppendEvent, Show, Commit, Fail, Tick, Open, Close, Snapshot, vars, workVars

\* The gates read the last committed event, in whatever order the events were
\* stamped.
CacheFollowsCommits ==
    /\ cache.last = Len(log)
    /\ cache.active = (log # <<>> /\ Activates(log[Len(log)]))

CInv == CacheFollowsCommits /\ AnnouncedOnce

LEMMA CInit == Init => CInv
<1> SUFFICES ASSUME Init PROVE CInv
  OBVIOUS
<1>1. log = <<>> /\ cache = [active |-> FALSE, last |-> 0] /\ announced = {}
  BY DEF Init
<1>2. cache.last = 0 /\ cache.active = FALSE /\ Len(log) = 0
  BY <1>1
<1>3. CacheFollowsCommits
  BY <1>1, <1>2 DEF CacheFollowsCommits
<1>4. QED
  BY <1>1, <1>3 DEF CInv, AnnouncedOnce

LEMMA CStep == TInv /\ CInv /\ [Next]_vars => CInv'
<1> SUFFICES ASSUME TInv, CInv, [Next]_vars PROVE CInv'
  OBVIOUS
<1>1. CASE UNCHANGED <<log, cache, announced, breaches, late>>
  BY <1>1 DEF CInv, CacheFollowsCommits, AnnouncedOnce
<1>2. ASSUME NEW w \in Workers, Commit(w), CommitEvent(w) PROVE CInv'
  <2> DEFINE e == draft[w][1]
  <2>1. Record(w, e)
    BY <1>2 DEF CommitEvent
  <2>2. e \in EventsT /\ log \in Seq(EventsT)
    BY <1>2 DEF CommitEvent, TInv, TypeOK
  <2> HIDE DEF e
  <2>3. /\ Len(log') = Len(log) + 1 /\ log'[Len(log) + 1] = e
        /\ \A i \in 1..Len(log) : log'[i] = log[i]
        /\ DOMAIN log' = 1..(Len(log) + 1) /\ Len(log) \in Nat /\ log' # <<>>
        /\ DOMAIN log = 1..Len(log) /\ (log = <<>> <=> Len(log) = 0)
    BY <2>1, <2>2 DEF Record
  <2>4. CacheFollowsCommits'
    <3>1. cache'.last = Len(log) + 1 /\ cache'.active = Activates(e)
      BY <2>1 DEF Record
    <3>2. log'[Len(log')] = e
      BY <2>3
    <3>3. QED
      BY <2>3, <3>1, <3>2 DEF CacheFollowsCommits, Activates
  <2>5. cache.active = (Len(log) # 0 /\ Activates(log[Len(log)]))
    BY <2>3 DEF CInv, CacheFollowsCommits
  <2>6. ASSUME Transitioned(e)
        PROVE  /\ Len(log) + 1 > 1 => Activates(e) # Activates(log[Len(log)])
               /\ Len(log) + 1 = 1 => Activates(e)
    BY <2>2, <2>3, <2>5, <2>6 DEF Transitioned, Activates
  <2>7. ASSUME NEW i \in announced'
        PROVE  /\ i \in DOMAIN log'
               /\ i > 1 => Activates(log'[i]) # Activates(log'[i - 1])
               /\ i = 1 => Activates(log'[1])
    <3>1. CASE i \in announced
      BY <2>3, <3>1 DEF CInv, AnnouncedOnce
    <3>2. CASE i = Len(log) + 1 /\ Transitioned(e)
      BY <2>3, <2>6, <3>2
    <3>3. QED
      BY <2>1, <2>7, <3>1, <3>2 DEF Record
  <2>8. AnnouncedOnce'
    BY <2>7 DEF AnnouncedOnce, Activates
  <2>9. QED
    BY <2>4, <2>8 DEF CInv
<1>3. ASSUME NEW w \in Workers, Commit(w), CommitPlain(w) PROVE CInv'
  BY <1>3 DEF CommitPlain, switchVars, CInv, CacheFollowsCommits, AnnouncedOnce
<1>4. QED
  BY <1>1, <1>2, <1>3, OnlyCommits DEF Commit

LEMMA Folded == Spec => [](TInv /\ CInv)
<1>1. Init => TInv /\ CInv
  BY TInit, CInit
<1>2. TInv /\ CInv /\ [Next]_vars => (TInv /\ CInv)'
  BY TStep, CStep
<1>3. QED
  BY <1>1, <1>2, PTL DEF Spec

\* Subscribers hear of an activation or a deactivation only when the switch
\* changed (#43), for any number of daemons and operators.
THEOREM AnnouncedOnlyOnce == Spec => []AnnouncedOnce
<1>1. CInv => AnnouncedOnce
  BY DEF CInv
<1>2. QED
  BY <1>1, Folded, PTL

-----------------------------------------------------------------------------
(* A halt lets each daemon accept one more proposal.                       *)

\* After that one, the worker is at the gate, which is closed.
HInv ==
    \A d \in Daemons :
        /\ late[d] \in {0, 1}
        /\ cache.active /\ late[d] = 1 => pc[d] = "idle"

LEMMA HStep == TInv /\ HInv /\ [Next]_vars => HInv'
<1> SUFFICES ASSUME TInv, HInv, [Next]_vars PROVE HInv'
  OBVIOUS
<1> USE Disjoint DEF TInv
<1>1. CASE UNCHANGED <<log, cache, announced, breaches, late>>
  <2>1. ASSUME NEW d \in Daemons, cache.active, pc[d] = "idle"
        PROVE  pc'[d] = "idle"
    <3>1. pc \in [Workers -> Steps] /\ d \in Workers /\ d \notin Operators
      BY Parts DEF Locking
    <3>2. ASSUME NEW x \in Workers, Commit(x) \/ Fail(x) PROVE pc'[d] = "idle"
      BY <2>1, <3>1, <3>2 DEF Commit, Fail
    <3>3. ASSUME NEW x \in Daemons, EvaluateNext(x) PROVE pc'[d] = "idle"
      BY <2>1, <3>1, <3>3 DEF EvaluateNext, Gate, Load, Save, Check, Trip
    <3>4. ASSUME NEW o \in Operators, OperatorNext(o) PROVE pc'[d] = "idle"
      BY <2>1, <3>1, <3>4 DEF OperatorNext, Command, Submit, AppendEvent
    <3>5. \/ pc' = pc
          \/ \E x \in Workers : Commit(x) \/ Fail(x)
          \/ \E x \in Daemons : EvaluateNext(x)
          \/ \E o \in Operators : OperatorNext(o)
      BY DEF Next, Show, Tick, Open, Close, Snapshot, vars
    <3>6. QED
      BY <2>1, <3>2, <3>3, <3>4, <3>5
  <2>2. QED
    BY <1>1, <2>1 DEF HInv
<1>2. ASSUME NEW w \in Workers, Commit(w) PROVE HInv'
  <2>1. pc' = [pc EXCEPT ![w] = "idle"] /\ pc[w] = "done"
    BY <1>2 DEF Commit
  <2>2. CASE CommitEvent(w)
    <3>1. late' = IF Activates(draft[w][1]) /\ ~cache.active
                  THEN [d \in Daemons |-> 0] ELSE late
      BY <2>2 DEF CommitEvent
    <3>2. cache'.active = Activates(draft[w][1])
      BY <2>2 DEF CommitEvent, Record
    <3>3. QED
      BY <2>1, <3>1, <3>2 DEF HInv, TypeOK
  <2>3. CASE CommitPlain(w)
    BY <2>1, <2>3 DEF CommitPlain, switchVars, HInv, TypeOK
  <2>4. QED
    BY <1>2, <2>2, <2>3 DEF Commit
<1>3. QED
  BY <1>1, <1>2, OnlyCommits

\* However many daemons, operators, resumes and faults: a halt in force lets
\* each daemon accept at most the proposal it had already gated.
THEOREM HaltBound == Spec => []HaltStopsEvaluations
<1>1. Init => TInv /\ HInv
  BY TInit DEF Init, HInv
<1>2. TInv /\ HInv /\ [Next]_vars => (TInv /\ HInv)'
  BY TStep, HStep
<1>3. HInv => HaltStopsEvaluations
  BY DEF HInv, HaltStopsEvaluations
<1>4. QED
  BY <1>1, <1>2, <1>3, PTL DEF Spec

-----------------------------------------------------------------------------
(* The switch trips once a day, and never later than the rejection.        *)

SelfTripped(e) == e.source = "automatic_cap_breach"

\* Nothing is stamped in the future.
Past ==
    /\ FirstTick <= now
    /\ \A i \in DOMAIN log : log[i].at <= now
    /\ \A w \in Workers :
          /\ stamp[w] <= now
          /\ draft[w] # <<>> => FirstTick <= draft[w][1].at /\ draft[w][1].at <= now

\* The source automatic_cap_breach is only ever an activation's.
AutosActivate ==
    \A i \in DOMAIN log : SelfTripped(log[i]) => log[i].transition = "activated"

\* A worker about to trip the switch holds the lock since it found no
\* activation of the day, so all of them are of earlier days.
FreshDay ==
    \A d \in Daemons : \A i \in DOMAIN log :
        /\ pc[d] = "tripping" /\ SelfTripped(log[i]) => Day(log[i].at) < Day(now)
        /\ draft[d] # <<>> /\ SelfTripped(log[i]) => Day(log[i].at) < Day(draft[d][1].at)

TrippedSince(day) ==
    \E i \in DOMAIN log : SelfTripped(log[i]) /\ Day(log[i].at) >= day

\* An evaluation that will record a breach trips the switch, or was preceded.
Covered ==
    \A d \in Daemons :
        pc[d] = "done" /\ decision[d] \in Regime
        => \/ draft[d] # <<>> /\ Day(draft[d][1].at) >= Day(stamp[d])
           \/ TrippedSince(Day(stamp[d]))

DInv == Past /\ AutosActivate /\ FreshDay /\ Covered
        /\ AutoOncePerDay /\ BreachTripsSwitch

LEMMA NowMonotone == TInv /\ [Next]_vars => now \in Nat /\ now' \in Nat /\ now <= now'
<1> SUFFICES ASSUME TInv, [Next]_vars
             PROVE  now \in Nat /\ now' \in Nat /\ now <= now'
  OBVIOUS
<1>1. now \in Nat /\ now' \in Nat
  BY TStep DEF TInv, TypeOK
<1>2. Tick \/ now' = now
  BY DEF Next, EvaluateNext, OperatorNext, Gate, Load, Save, Check, Trip,
     Command, Submit, AppendEvent, Show, Commit, Fail, Open, Close,
     Snapshot, vars
<1>3. QED
  BY <1>1, <1>2 DEF Tick

LEMMA PastStep == TInv /\ Past /\ [Next]_vars => Past'
<1> SUFFICES ASSUME TInv, Past, [Next]_vars PROVE Past'
  OBVIOUS
<1> USE Disjoint DEF TInv
<1>1. now \in Nat /\ FirstTick \in Nat /\ now' \in Nat
  BY RiskAssumption, NowMonotone
<1>2. now <= now'
  BY NowMonotone
<1>3. ASSUME NEW w \in Workers PROVE stamp'[w] <= now'
  <2>1. stamp'[w] = stamp[w] \/ stamp'[w] = now \/ stamp'[w] = FirstTick
    BY DEF Next, EvaluateNext, OperatorNext, Gate, Load, Save, Check, Trip,
       Command, Submit, AppendEvent, Show, Commit, Fail, Forget, Tick, Open,
       Close, Snapshot, vars, workVars, TypeOK
  <2>2. stamp[w] \in Nat
    BY DEF TypeOK
  <2>3. QED
    BY <1>1, <1>2, <2>1, <2>2 DEF Past
<1>4. ASSUME NEW w \in Workers, draft'[w] # <<>>
      PROVE  FirstTick <= draft'[w][1].at /\ draft'[w][1].at <= now'
  <2>1. draft'[w] = draft[w] \/ draft'[w][1].at = now
    <3>1. ASSUME NEW d \in Daemons, Trip(d)
          PROVE  draft'[w] = draft[w] \/ draft'[w][1].at = now
      BY <3>1 DEF Trip, Event, TypeOK
    <3>2. ASSUME NEW o \in Operators, NEW tr \in Transitions, Submit(o, tr)
          PROVE  draft'[w] = draft[w] \/ draft'[w][1].at = now
      BY <3>2 DEF Submit, Event, TypeOK
    <3>3. ASSUME NEW x \in Workers, Forget(x)
          PROVE  draft'[w] = draft[w]
      BY <1>4, <3>3 DEF Forget, TypeOK
    <3>4. QED
      BY <3>1, <3>2, <3>3, OnlyDrafts
  <2>2. CASE draft'[w] = draft[w]
    <3>1. draft[w][1] \in EventsT
      BY <1>4, <2>2 DEF TypeOK
    <3>2. draft[w][1].at \in Nat
      BY <3>1 DEF EventsT
    <3>3. QED
      BY <1>1, <1>2, <1>4, <2>2, <3>2 DEF Past
  <2>3. QED
    BY <1>1, <1>2, <2>1, <2>2 DEF Past
<1>5. ASSUME NEW i \in DOMAIN log' PROVE log'[i].at <= now'
  <2>1. CASE UNCHANGED log
    <3>1. log[i] \in EventsT /\ i \in DOMAIN log
      BY <1>5, <2>1 DEF TypeOK
    <3>2. log[i].at \in Nat
      BY <3>1 DEF EventsT
    <3>3. QED
      BY <1>1, <1>2, <2>1, <3>1, <3>2 DEF Past
  <2>2. ASSUME NEW w \in Workers, CommitEvent(w) PROVE log'[i].at <= now'
    <3> DEFINE e == draft[w][1]
    <3>1. log' = Append(log, e) /\ draft[w] # <<>>
      BY <2>2 DEF CommitEvent, Record
    <3>2. e \in EventsT /\ log \in Seq(EventsT)
      BY <3>1 DEF TypeOK
    <3>3. e.at <= now
      BY <3>1 DEF Past
    <3> HIDE DEF e
    <3>4. log'[i] = e \/ (i \in DOMAIN log /\ log'[i] = log[i])
      BY <1>5, <3>1, <3>2
    <3>5. ASSUME NEW j \in DOMAIN log PROVE log[j].at \in Nat
      <4>1. log[j] \in EventsT
        BY <3>2
      <4>2. QED
        BY <4>1 DEF EventsT
    <3>6. e.at \in Nat
      BY <3>2 DEF EventsT
    <3>7. QED
      BY <1>1, <1>2, <3>3, <3>4, <3>5, <3>6 DEF Past
  <2>3. QED
    BY <2>1, <2>2, OnlyCommits DEF Commit, CommitPlain, switchVars
<1>6. FirstTick <= now'
  BY <1>1, <1>2 DEF Past
<1>7. QED
  BY <1>3, <1>4, <1>5, <1>6 DEF Past

\* What a commit does to the log, in terms of the days of its activations.
LEMMA LogTypes ==
    ASSUME TInv, Past
    PROVE  /\ now \in Nat /\ log \in Seq(EventsT)
           /\ \A i \in DOMAIN log : log[i].at \in Nat /\ Day(log[i].at) \in Nat
                                    /\ Day(log[i].at) <= Day(now)
           /\ \A w \in Workers : draft[w] # <<>> =>
                 /\ draft[w][1] \in EventsT /\ draft[w][1].at \in Nat
                 /\ Day(draft[w][1].at) \in Nat
           /\ \A w \in Workers : stamp[w] \in Nat /\ Day(stamp[w]) \in Nat
           /\ Day(now) \in Nat
<1>1. now \in Nat /\ log \in Seq(EventsT)
  BY DEF TInv, TypeOK
<1>2. ASSUME NEW i \in DOMAIN log
      PROVE  log[i].at \in Nat /\ Day(log[i].at) \in Nat /\ Day(log[i].at) <= Day(now)
  <2>1. log[i] \in EventsT
    BY <1>1
  <2>2. log[i].at \in Nat /\ log[i].at <= now
    BY <2>1 DEF EventsT, Past
  <2>3. QED
    BY <1>1, <2>2, DayMonotone, DayType
<1>3. ASSUME NEW w \in Workers, draft[w] # <<>>
      PROVE  /\ draft[w][1] \in EventsT /\ draft[w][1].at \in Nat
             /\ Day(draft[w][1].at) \in Nat
  <2>1. draft[w][1] \in EventsT
    BY <1>3 DEF TInv, TypeOK
  <2>2. draft[w][1].at \in Nat
    BY <2>1 DEF EventsT
  <2>3. QED
    BY <2>1, <2>2, DayType
<1>4. ASSUME NEW w \in Workers PROVE stamp[w] \in Nat /\ Day(stamp[w]) \in Nat
  BY DayType DEF TInv, TypeOK
<1>5. QED
  BY <1>1, <1>2, <1>3, <1>4, DayType

LEMMA Appended ==
    ASSUME TInv, NEW w \in Workers, CommitEvent(w)
    PROVE  /\ DOMAIN log = 1..Len(log) /\ Len(log) \in Nat
           /\ DOMAIN log' = 1..(Len(log) + 1)
           /\ log'[Len(log) + 1] = draft[w][1]
           /\ \A i \in DOMAIN log : i \in DOMAIN log' /\ log'[i] = log[i]
           /\ draft[w] # <<>>
<1> DEFINE e == draft[w][1]
<1>1. log' = Append(log, e) /\ draft[w] # <<>>
  BY DEF CommitEvent, Record
<1>2. e \in EventsT /\ log \in Seq(EventsT)
  BY <1>1 DEF TInv, TypeOK
<1> HIDE DEF e
<1>3. QED
  BY <1>1, <1>2 DEF e

\* While a daemon is in its transaction no other worker commits an event.
LEMMA Exclusive ==
    ASSUME TInv, NEW w \in Workers, Commit(w), NEW d \in Daemons,
           pc[d] \in {"tripping", "done", "saved"}
    PROVE  w = d
BY Disjoint DEF Commit, TInv, TypeOK

LEMMA AutosStep == TInv /\ AutosActivate /\ [Next]_vars => AutosActivate'
<1> SUFFICES ASSUME TInv, AutosActivate, [Next]_vars PROVE AutosActivate'
  OBVIOUS
<1>1. CASE UNCHANGED log
  BY <1>1 DEF AutosActivate, SelfTripped
<1>2. ASSUME NEW w \in Workers, CommitEvent(w) PROVE AutosActivate'
  <2>1. SelfTripped(draft[w][1]) => draft[w][1].transition = "activated"
    BY <1>2, Appended, Disjoint DEF SelfTripped, TInv, Drafts
  <2>2. QED
    BY <1>2, <2>1, Appended DEF AutosActivate, SelfTripped
<1>3. QED
  BY <1>1, <1>2, OnlyCommits DEF Commit, CommitPlain, switchVars

LEMMA FreshStep ==
    TInv /\ Past /\ AutosActivate /\ FreshDay /\ [Next]_vars => FreshDay'
<1> SUFFICES ASSUME TInv, Past, AutosActivate, FreshDay, [Next]_vars,
                    NEW d \in Daemons, NEW i \in DOMAIN log'
             PROVE  /\ pc'[d] = "tripping" /\ SelfTripped(log'[i])
                       => Day(log'[i].at) < Day(now')
                    /\ draft'[d] # <<>> /\ SelfTripped(log'[i])
                       => Day(log'[i].at) < Day(draft'[d][1].at)
  BY DEF FreshDay, SelfTripped
<1> USE Disjoint
<1>1. CASE \E w \in Workers : Commit(w)
  <2>1. PICK w \in Workers : Commit(w)
    BY <1>1
  <2>2. pc' = [pc EXCEPT ![w] = "idle"] /\ draft' = [draft EXCEPT ![w] = <<>>]
        /\ now' = now
    BY <2>1 DEF Commit, Forget
  <2>3. CASE pc'[d] = "tripping"
    BY <2>1, <2>2, <2>3, Exclusive DEF TInv, TypeOK
  <2>4. CASE draft'[d] # <<>>
    <3>1. d # w /\ draft[d] # <<>>
      BY <2>2, <2>4 DEF TInv, TypeOK
    <3>2. pc[d] = "done"
      BY <3>1 DEF TInv, Drafts
    <3>3. QED
      BY <2>1, <3>1, <3>2, Exclusive
  <2>5. QED
    BY <2>3, <2>4
<1>2. CASE UNCHANGED log
  <2>1. log'[i] = log[i] /\ i \in DOMAIN log
    BY <1>2
  <2>2. ASSUME pc'[d] = "tripping", SelfTripped(log[i])
        PROVE  Day(log[i].at) < Day(now')
    <3>1. CASE pc[d] = "tripping"
      <4>1. now <= now' /\ now' \in Nat /\ now \in Nat
        BY NowMonotone
      <4>2. Day(now) <= Day(now') /\ Day(now) \in Nat /\ Day(now') \in Nat
        BY <4>1, DayMonotone, DayType
      <4>3. Day(log[i].at) < Day(now)
        BY <2>1, <2>2, <3>1 DEF FreshDay
      <4>4. QED
        BY <2>1, <4>2, <4>3, LogTypes
    <3>2. CASE pc[d] # "tripping"
      <4>1. Check(d)
        <5>1. pc \in [Workers -> {"idle", "gated", "decided", "saved",
                                  "tripping", "stamped", "done"}]
          BY DEF TInv, TypeOK
        <5>2. ASSUME NEW x \in Daemons, Check(x) PROVE x = d
          BY <2>2, <3>2, <5>1, <5>2 DEF Check
        <5>3. \E x \in Daemons : Check(x)
          BY <2>2, <3>2, <5>1 DEF Next, EvaluateNext, OperatorNext, Gate, Load,
             Save, Trip, Command, Submit, AppendEvent, Show, Commit, Fail,
             Tick, Open, Close, Snapshot, vars
        <5>4. QED
          BY <5>2, <5>3
      <4>2. ~AutoToday /\ now' = now
        BY <2>2, <4>1 DEF Check, TInv, TypeOK
      <4>3. log[i].transition = "activated"
        BY <2>1, <2>2 DEF AutosActivate
      <4>4. QED
        BY <2>1, <2>2, <4>2, <4>3, LogTypes DEF AutoToday, SelfTripped
    <3>3. QED
      BY <3>1, <3>2
  <2>3. ASSUME draft'[d] # <<>>, SelfTripped(log[i])
        PROVE  Day(log[i].at) < Day(draft'[d][1].at)
    <3>1. CASE draft'[d] = draft[d]
      BY <2>1, <2>3, <3>1 DEF FreshDay
    <3>2. CASE Trip(d)
      <4>1. pc[d] = "tripping" /\ draft'[d][1].at = now
        BY <3>2 DEF Trip, Event, TInv, TypeOK
      <4>2. QED
        BY <2>1, <2>3, <4>1 DEF FreshDay
    <3>3. draft'[d] = draft[d] \/ Trip(d)
      <4>1. draft \in [Workers -> Seq(EventsT)]
        BY DEF TInv, TypeOK
      <4>2. ASSUME NEW x \in Daemons, Trip(x) PROVE draft'[d] = draft[d] \/ Trip(d)
        BY <4>1, <4>2 DEF Trip
      <4>3. ASSUME NEW o \in Operators, NEW tr \in Transitions, Submit(o, tr)
            PROVE  draft'[d] = draft[d]
        BY <4>1, <4>3 DEF Submit
      <4>4. ASSUME NEW w \in Workers, Forget(w) PROVE draft'[d] = draft[d]
        BY <2>3, <4>1, <4>4 DEF Forget
      <4>5. QED
        BY <4>2, <4>3, <4>4, OnlyDrafts
    <3>4. QED
      BY <3>1, <3>2, <3>3
  <2>4. QED
    BY <2>1, <2>2, <2>3
<1>3. QED
  BY <1>1, <1>2, OnlyCommits

LEMMA OnceStep ==
    TInv /\ Past /\ FreshDay /\ AutoOncePerDay /\ [Next]_vars => AutoOncePerDay'
<1> SUFFICES ASSUME TInv, Past, FreshDay, AutoOncePerDay, [Next]_vars
             PROVE  AutoOncePerDay'
  OBVIOUS
<1>1. CASE UNCHANGED log
  BY <1>1 DEF AutoOncePerDay, Day
<1>2. ASSUME NEW w \in Workers, Commit(w), CommitEvent(w) PROVE AutoOncePerDay'
  <2> DEFINE n == Len(log) + 1
  <2>1. /\ DOMAIN log' = DOMAIN log \cup {n} /\ n \notin DOMAIN log
        /\ log'[n] = draft[w][1] /\ \A i \in DOMAIN log : log'[i] = log[i]
    <3>1. /\ DOMAIN log = 1..Len(log) /\ Len(log) \in Nat
          /\ DOMAIN log' = 1..n
      BY <1>2, Appended
    <3>2. 1..n = (1..Len(log)) \cup {n} /\ n \notin 1..Len(log)
      BY <3>1
    <3>3. log'[n] = draft[w][1] /\ \A i \in DOMAIN log : log'[i] = log[i]
      BY <1>2, Appended
    <3>4. QED
      BY <3>1, <3>2, <3>3
  <2> HIDE DEF n
  <2>2. ASSUME SelfTripped(draft[w][1]), NEW i \in DOMAIN log, SelfTripped(log[i])
        PROVE  Day(log[i].at) # Day(draft[w][1].at)
    <3>1. w \in Daemons /\ draft[w] # <<>>
      BY <1>2, <2>2, Appended, Disjoint DEF SelfTripped, TInv, Drafts
    <3>2. Day(log[i].at) < Day(draft[w][1].at)
      BY <2>2, <3>1 DEF FreshDay
    <3>3. QED
      BY <3>1, <3>2, LogTypes
  <2>3. SUFFICES ASSUME NEW i \in DOMAIN log', NEW j \in DOMAIN log',
                        SelfTripped(log'[i]), SelfTripped(log'[j]),
                        Day(log'[i].at) = Day(log'[j].at)
                 PROVE  i = j
    BY DEF AutoOncePerDay, SelfTripped, Day
  <2>4. CASE i \in DOMAIN log /\ j \in DOMAIN log
    BY <2>1, <2>3, <2>4 DEF AutoOncePerDay, SelfTripped
  <2>5. CASE i = n \/ j = n
    BY <2>1, <2>2, <2>3, <2>5
  <2>6. QED
    BY <2>1, <2>4, <2>5
<1>3. QED
  BY <1>1, <1>2, OnlyCommits DEF Commit, CommitPlain, switchVars

\* Only a daemon's own step takes it to the end of its transaction.
LEMMA CoveredStep ==
    TInv /\ Past /\ AutosActivate /\ Covered /\ [Next]_vars => Covered'
<1> SUFFICES ASSUME TInv, Past, Covered, [Next]_vars,
                    NEW d \in Daemons, pc'[d] = "done", decision'[d] \in Regime
             PROVE  \/ draft'[d] # <<>> /\ Day(draft'[d][1].at) >= Day(stamp'[d])
                    \/ \E i \in DOMAIN log' :
                          SelfTripped(log'[i]) /\ Day(log'[i].at) >= Day(stamp'[d])
  BY DEF Covered, TrippedSince, SelfTripped, Day
<1> USE Disjoint
<1>1. pc \in [Workers -> {"idle", "gated", "decided", "saved", "tripping",
                          "stamped", "done"}]
  BY DEF TInv, TypeOK
<1>2. ~ \E w \in Workers : Commit(w)
  <2>1. SUFFICES ASSUME NEW w \in Workers, Commit(w) PROVE FALSE
    OBVIOUS
  <2>2. pc' = [pc EXCEPT ![w] = "idle"]
    BY <2>1 DEF Commit
  <2>3. pc[d] = "done" /\ w # d
    BY <1>1, <2>2
  <2>4. QED
    BY <2>1, <2>3, Exclusive
<1>3. log' = log
  BY <1>2, OnlyCommits
<1>4. CASE pc[d] = "done"
  <2>1. draft'[d] = draft[d] /\ stamp'[d] = stamp[d] /\ decision'[d] = decision[d]
    <3>1. ASSUME NEW x \in Workers, Fail(x)
          PROVE  draft'[d] = draft[d] /\ stamp'[d] = stamp[d] /\ decision'[d] = decision[d]
      <4>1. x # d
        BY <1>1, <3>1 DEF Fail
      <4>2. QED
        BY <3>1, <4>1 DEF Fail, Forget, TInv, TypeOK
    <3>2. ASSUME NEW x \in Daemons, NEW n \in Notionals, Load(x, n)
          PROVE  draft'[d] = draft[d] /\ stamp'[d] = stamp[d] /\ decision'[d] = decision[d]
      BY <1>4, <3>2 DEF Load, TInv, TypeOK
    <3>3. ASSUME NEW x \in Daemons, Trip(x)
          PROVE  draft'[d] = draft[d] /\ stamp'[d] = stamp[d] /\ decision'[d] = decision[d]
      BY <1>4, <3>3 DEF Trip, TInv, TypeOK
    <3>4. ASSUME NEW x \in Operators, NEW tr \in Transitions, Submit(x, tr)
          PROVE  draft'[d] = draft[d] /\ stamp'[d] = stamp[d] /\ decision'[d] = decision[d]
      BY <3>4 DEF Submit, TInv, TypeOK
    <3>5. QED
      BY <1>2, <3>1, <3>2, <3>3, <3>4 DEF Next, EvaluateNext, OperatorNext, Gate,
         Save, Check, Command, AppendEvent, Show, Tick, Open, Close, Snapshot,
         vars, workVars
  <2>2. QED
    BY <1>3, <1>4, <2>1 DEF Covered, TrippedSince
<1>5. ASSUME Save(d) PROVE FALSE
  BY <1>1, <1>5 DEF Save, workVars, Regime
<1>6. CASE Check(d)
  <2>1. AutoToday /\ stamp' = stamp
    BY <1>1, <1>6 DEF Check, workVars
  <2>2. Day(stamp[d]) <= Day(now)
    BY LogTypes, DayMonotone DEF Past
  <2>3. QED
    BY <1>3, <2>1, <2>2, LogTypes DEF AutoToday, SelfTripped
<1>7. CASE Trip(d)
  <2>1. draft'[d] # <<>> /\ draft'[d][1].at = now /\ stamp' = stamp
    BY <1>7 DEF Trip, Event, TInv, TypeOK
  <2>2. Day(stamp[d]) <= Day(now)
    BY LogTypes, DayMonotone DEF Past
  <2>3. QED
    BY <2>1, <2>2, LogTypes
<1>8. CASE pc[d] # "done"
  <2>1. ASSUME NEW x \in Daemons, Save(x) \/ Check(x) \/ Trip(x) PROVE x = d
    BY <1>1, <1>8, <2>1 DEF Save, Check, Trip
  <2>2. \E x \in Daemons : Save(x) \/ Check(x) \/ Trip(x)
    BY <1>1, <1>2, <1>8 DEF Next, EvaluateNext, OperatorNext, Gate, Load,
       Command, Submit, AppendEvent, Show, Fail, Tick, Open, Close, Snapshot,
       vars
  <2>3. QED
    BY <1>5, <1>6, <1>7, <2>1, <2>2
<1>9. QED
  BY <1>4, <1>8

LEMMA BreachStep ==
    TInv /\ Past /\ Covered /\ BreachTripsSwitch /\ [Next]_vars
    => BreachTripsSwitch'
<1> SUFFICES ASSUME TInv, Past, Covered, BreachTripsSwitch, [Next]_vars,
                    NEW day \in breaches'
             PROVE  \E i \in DOMAIN log' :
                       SelfTripped(log'[i]) /\ Day(log'[i].at) >= day
  BY DEF BreachTripsSwitch, SelfTripped, Day
<1>1. CASE UNCHANGED <<log, cache, announced, breaches, late>>
  BY <1>1 DEF BreachTripsSwitch, SelfTripped
<1>2. ASSUME NEW w \in Workers, Commit(w)
      PROVE  \E i \in DOMAIN log' : SelfTripped(log'[i]) /\ Day(log'[i].at) >= day
  <2>1. \A i \in DOMAIN log : i \in DOMAIN log' /\ log'[i] = log[i]
    BY <1>2, Appended DEF Commit, CommitPlain, switchVars
  <2>2. CASE day \in breaches
    BY <2>1, <2>2 DEF BreachTripsSwitch, SelfTripped
  <2>3. CASE w \in Daemons /\ decision[w] \in Regime /\ day = Day(stamp[w])
    <3>1. CASE TrippedSince(Day(stamp[w]))
      BY <2>1, <2>3, <3>1 DEF TrippedSince
    <3>2. CASE draft[w] # <<>> /\ Day(draft[w][1].at) >= Day(stamp[w])
      <4>1. CommitEvent(w)
        BY <1>2, <3>2 DEF Commit, CommitPlain
      <4>2. SelfTripped(draft[w][1])
        BY <2>3, <3>2 DEF SelfTripped, TInv, Drafts
      <4>3. Len(log) + 1 \in DOMAIN log' /\ log'[Len(log) + 1] = draft[w][1]
        BY <4>1, Appended
      <4>4. QED
        BY <2>3, <3>2, <4>2, <4>3
    <3>3. pc[w] = "done"
      BY <1>2 DEF Commit
    <3>4. QED
      BY <2>3, <3>1, <3>2, <3>3 DEF Covered
  <2>4. QED
    BY <1>2, <2>2, <2>3 DEF Commit
<1>3. QED
  BY <1>1, <1>2, OnlyCommits

LEMMA DInit == Init => DInv
<1> SUFFICES ASSUME Init PROVE DInv
  OBVIOUS
<1>1. FirstTick \in Nat /\ DOMAIN log = {} /\ breaches = {}
  BY RiskAssumption DEF Init
<1>2. QED
  BY <1>1, Disjoint DEF Init, DInv, Past, AutosActivate, FreshDay, Covered,
     AutoOncePerDay, BreachTripsSwitch

LEMMA Tripping == Spec => [](TInv /\ DInv)
<1>1. Init => TInv /\ DInv
  BY TInit, DInit
<1>2. TInv /\ DInv /\ [Next]_vars => (TInv /\ DInv)'
  BY TStep, PastStep, AutosStep, FreshStep, CoveredStep, OnceStep, BreachStep
     DEF DInv
<1>3. QED
  BY <1>1, <1>2, PTL DEF Spec

\* The switch trips itself at most once in a UTC day, for any number of
\* daemons and also across midnight (_maybe_auto_activate_on_breach).
THEOREM TripsOnce == Spec => []AutoOncePerDay
<1>1. DInv => AutoOncePerDay
  BY DEF DInv
<1>2. QED
  BY <1>1, Tripping, PTL

\* A recorded rejection for a loss or a drawdown always comes with a trip of
\* its day or a later one (evaluate_proposal, one transaction).
THEOREM TripsAlways == Spec => []BreachTripsSwitch
<1>1. DInv => BreachTripsSwitch
  BY DEF DInv
<1>2. QED
  BY <1>1, Tripping, PTL

(* The contract of the switch.                                             *)

\* Committing an event throws the contract's switch.
LEMMA Throws ==
    ASSUME TInv, Past, NEW w \in Workers, Commit(w), CommitEvent(w)
    PROVE  Contract!Throw(draft[w][1].transition, draft[w][1].source, draft[w][1].at)
<1> DEFINE e == draft[w][1]
<1>1. e \in EventsT /\ FirstTick <= e.at /\ e.at <= now
      /\ now \in Nat /\ FirstTick \in Nat /\ Record(w, e)
  BY RiskAssumption DEF TInv, TypeOK, Past, CommitEvent
<1> HIDE DEF e
<1>2. e = [transition |-> e.transition, source |-> e.source, at |-> e.at] /\ e.at \in Nat
  BY <1>1 DEF EventsT
<1>3. log' = Append(log, e)
  BY <1>1 DEF Record
<1>4. active' = (e.transition = "activated")
  BY <1>1 DEF Record, Activates, active
<1>5. \/ announced' = announced
      \/ active' # active /\ announced' = announced \cup {Len(log) + 1}
  BY <1>1, <1>4 DEF Record, Transitioned, Activates, active
<1>6. now' = now /\ e.at \in FirstTick..now
  BY <1>1, <1>2 DEF Commit
<1>7. Contract!Throw(e.transition, e.source, e.at)
  BY <1>2, <1>3, <1>4, <1>5, <1>6 DEF Contract!Throw
<1> QED
  BY <1>7 DEF e

LEMMA SwitchStep ==
    TInv /\ Past /\ FreshDay /\ [Next]_vars => [Contract!Next]_(Contract!vars)
<1> SUFFICES ASSUME TInv, Past, FreshDay, [Next]_vars
             PROVE  Contract!Next \/ UNCHANGED Contract!vars
  OBVIOUS
<1>1. ASSUME NEW w \in Workers, Commit(w), CommitEvent(w) PROVE Contract!Next
  <2> DEFINE e == draft[w][1]
  <2>1. draft[w] # <<>> /\ e \in EventsT /\ FirstTick <= e.at /\ e.at <= now
        /\ now \in Nat /\ FirstTick \in Nat
    BY <1>1, RiskAssumption DEF TInv, TypeOK, Past, CommitEvent
  <2>2. Contract!Throw(e.transition, e.source, e.at)
    BY <1>1, Throws DEF TInv
  <2>3. e.at \in FirstTick..now /\ e.transition \in {"activated", "deactivated"}
    BY <2>1 DEF EventsT, Transitions
  <2>4. log' # log
    <3>1. log \in Seq(EventsT) /\ log' = Append(log, e)
      BY <1>1 DEF TInv, TypeOK, CommitEvent, Record
    <3> HIDE DEF e
    <3>2. Len(log') = Len(log) + 1 /\ Len(log) \in Nat
      BY <2>1, <3>1
    <3> QED
      BY <3>2
  <2>5. CASE w \in Operators
    <3>1. e.source \in {"cli", "channel_command"}
      BY <2>1, <2>5 DEF TInv, Drafts
    <3>2. Contract!Command(e.transition, e.source, e.at)
      BY <2>2, <2>3, <3>1 DEF Contract!Command
    <3> QED
      BY <2>3, <2>4, <3>1, <3>2 DEF Contract!Next
  <2>6. CASE w \in Daemons
    <3>1. e.source = "automatic_cap_breach" /\ e.transition = "activated"
      BY <2>1, <2>6 DEF TInv, Drafts
    <3>2. \A i \in DOMAIN log : log[i].source = "automatic_cap_breach" =>
             Contract!Day(log[i].at) < Contract!Day(e.at)
      BY <2>1, <2>6 DEF FreshDay, SelfTripped, Day, Contract!Day
    <3>3. Contract!Trip(e.at)
      BY <2>2, <3>1, <3>2 DEF Contract!Trip
    <3> QED
      BY <2>3, <2>4, <3>3 DEF Contract!Next
  <2> QED
    BY <2>5, <2>6, Disjoint
<1>2. ASSUME UNCHANGED <<log, cache, announced>>
      PROVE  Contract!Next \/ UNCHANGED Contract!vars
  <2>1. CASE Tick
    BY <1>2, <2>1 DEF Tick, Contract!Next, Contract!Tick, active
  <2>2. CASE now' = now
    BY <1>2, <2>2 DEF Contract!vars, active
  <2>3. Tick \/ now' = now
    BY DEF Next, EvaluateNext, OperatorNext, Gate, Load, Save, Check, Trip,
       Command, Submit, AppendEvent, Show, Commit, Fail, Open, Close,
       Snapshot, vars
  <2> QED
    BY <2>1, <2>2, <2>3
<1> QED
  BY <1>1, <1>2, OnlyCommits DEF Commit, CommitPlain, switchVars

\* The kill switch, its log, its cache and its announcements, is one switch
\* with one history (append_kill_switch_event and update_kill_switch_cache in
\* one transaction, _maybe_auto_activate_on_breach).
THEOREM Refinement == Spec => ImplementsContract
<1>1. Init => Contract!Init
  BY DEF Init, Contract!Init, active
<1>2. TInv /\ Past /\ FreshDay /\ [Next]_vars => [Contract!Next]_(Contract!vars)
  BY SwitchStep
<1>3. Spec => [](TInv /\ Past /\ FreshDay)
  <2>1. DInv => Past /\ FreshDay
    BY DEF DInv
  <2> QED
    BY <2>1, Tripping, PTL
<1> QED
  BY <1>1, <1>2, <1>3, PTL DEF Spec, ImplementsContract, Contract!Spec

-----------------------------------------------------------------------------
(* What makes a halt be lost.  HaltIsHonoured fails (run by hand with       *)
(* MCRiskControl_halt.cfg) only because a resume can commit in the bucket   *)
(* of a halt that was answered: the key of the halt then answers the next   *)
(* one.  Where that does not happen every answered halt finds the switch on.*)

\* A resume commits in no bucket of a halt a chat has the answer of.
HaltStands ==
    cache.active /\ ~cache'.active => \A c \in Chats : Key("activated") \notin seen[c]

ResumesApart == [][HaltStands]_vars

\* Keys are of this bucket or of earlier ones.
KeysPast == \A c \in Chats : \A k \in seen[c] : k[2] <= now

\* While a chat holds the key of a halt of this bucket, the switch is on.
KeyedIsOn == \A c \in Chats : Key("activated") \in seen[c] => cache.active

LEMMA OnlyAnswers ==
    [Next]_vars => \/ \E w \in Workers : Commit(w) /\ CommitEvent(w)
                   \/ UNCHANGED seen
BY DEF Next, EvaluateNext, OperatorNext, Gate, Load, Save, Check, Trip,
   Command, Submit, AppendEvent, Show, Commit, CommitPlain, Fail, Tick, Open,
   Close, Snapshot, vars, chatVars

\* A commit that answers adds the key of its own event to its own chat.
LEMMA AnswersOwn ==
    ASSUME TInv, Past, NEW w \in Workers, Commit(w), CommitEvent(w)
    PROVE  /\ now' = now /\ now \in Nat
           /\ draft[w][1].at \in Nat /\ draft[w][1].at <= now
           /\ cache'.active = (draft[w][1].transition = "activated")
           /\ \A c \in Chats : seen'[c] \subseteq
                 seen[c] \cup {<<draft[w][1].transition, draft[w][1].at>>}
<1> DEFINE e == draft[w][1]
<1>1. draft[w] # <<>> /\ e \in EventsT /\ now \in Nat
  BY DEF TInv, TypeOK, CommitEvent
<1>2. e.at \in Nat /\ e.at <= now
  BY <1>1 DEF EventsT, Past
<1>3. now' = now
  BY DEF Commit
<1>4. cache'.active = (e.transition = "activated")
  BY DEF CommitEvent, Record, Activates
<1>5. \A c \in Chats : seen'[c] \subseteq seen[c] \cup {<<e.transition, e.at>>}
  <2>1. seen \in [Chats -> SUBSET (Transitions \X Nat)] /\ Answer(w, e)
    BY DEF TInv, TypeOK, CommitEvent
  <2> HIDE DEF e
  <2> QED
    BY <2>1 DEF Answer
<1> QED
  BY <1>1, <1>2, <1>3, <1>4, <1>5

LEMMA KeysStep ==
    TInv /\ Past /\ KeysPast /\ [Next]_vars => KeysPast'
<1> SUFFICES ASSUME TInv, Past, KeysPast, [Next]_vars PROVE KeysPast'
  OBVIOUS
<1>1. now \in Nat /\ now' \in Nat /\ now <= now'
  BY NowMonotone
<1>2. \A c \in Chats : \A k \in seen[c] : k[2] \in Nat
  BY DEF TInv, TypeOK
<1>3. CASE UNCHANGED seen
  BY <1>1, <1>2, <1>3 DEF KeysPast
<1>4. ASSUME NEW w \in Workers, Commit(w), CommitEvent(w) PROVE KeysPast'
  <2> DEFINE k == <<draft[w][1].transition, draft[w][1].at>>
  <2>1. k[2] <= now /\ now' = now
    BY <1>4, AnswersOwn
  <2>2. \A c \in Chats : seen'[c] \subseteq seen[c] \cup {k}
    BY <1>4, AnswersOwn
  <2> HIDE DEF k
  <2> QED
    BY <2>1, <2>2 DEF KeysPast
<1> QED
  BY <1>3, <1>4, OnlyAnswers

LEMMA KeyedStep ==
    TInv /\ Past /\ KeysPast /\ KeyedIsOn /\ [Next]_vars /\ [HaltStands]_vars
        => KeyedIsOn'
<1> SUFFICES ASSUME TInv, Past, KeysPast, KeyedIsOn, [Next]_vars, [HaltStands]_vars,
                    NEW c \in Chats, <<"activated", now'>> \in seen'[c]
             PROVE  cache'.active
  BY DEF KeyedIsOn, Key
<1>1. now \in Nat /\ now' \in Nat /\ now <= now'
  BY NowMonotone
\* A key the chat held already is of this bucket, so the clock stands.
<1>2. CASE <<"activated", now'>> \in seen[c]
  <2>1. now' <= now
    BY <1>2 DEF KeysPast
  <2>2. now' = now
    BY <1>1, <2>1
  <2>3. cache.active /\ Key("activated") \in seen[c]
    BY <1>2, <2>2 DEF KeyedIsOn, Key
  <2> QED
    BY <2>3 DEF HaltStands, vars, switchVars
<1>3. ASSUME NEW w \in Workers, Commit(w), CommitEvent(w),
             <<"activated", now'>> \notin seen[c]
      PROVE  cache'.active
  <2>1. <<"activated", now'>> = <<draft[w][1].transition, draft[w][1].at>>
    BY <1>3, AnswersOwn
  <2>2. draft[w][1].transition = "activated"
    BY <2>1
  <2> QED
    BY <1>3, <2>2, AnswersOwn
<1> QED
  BY <1>2, <1>3, OnlyAnswers

HaltAnswered ==
    \A c \in Chats : told[c] = None /\ told'[c] = "activated" => cache'.active

LEMMA HaltStep ==
    TInv /\ Past /\ KeyedIsOn /\ [Next]_vars => HaltAnswered
<1> SUFFICES ASSUME TInv, Past, KeyedIsOn, [Next]_vars, NEW c \in Chats,
                    told[c] = None, told'[c] = "activated"
             PROVE  cache'.active
  BY DEF HaltAnswered
<1>1. told \in [Chats -> Transitions \cup {None}] /\ told'[c] # told[c]
  BY RiskAssumption DEF TInv, TypeOK, Transitions
<1>2. ASSUME NEW o \in Operators, NEW tr \in Transitions, Command(o, tr)
      PROVE  cache'.active
  <2>1. /\ told' = [told EXCEPT ![o] = tr] /\ o \in Chats /\ Key(tr) \in seen[o]
        /\ cache' = cache
    BY <1>1, <1>2 DEF Command, Submit, switchVars
  <2>2. o = c /\ tr = "activated"
    BY <1>1, <2>1
  <2> QED
    BY <2>1, <2>2 DEF KeyedIsOn
<1>3. ASSUME NEW w \in Workers, Commit(w), CommitEvent(w) PROVE cache'.active
  <2> DEFINE e == draft[w][1]
  <2>1. Answer(w, e) /\ cache'.active = (e.transition = "activated")
    BY <1>3, AnswersOwn DEF CommitEvent
  <2> HIDE DEF e
  <2>2. w = c /\ told' = [told EXCEPT ![w] = e.transition]
    BY <1>1, <2>1 DEF Answer
  <2>3. e.transition = "activated"
    BY <1>1, <2>2
  <2> QED
    BY <2>1, <2>3
<1>4. ASSUME NEW b \in Chats, Show(b) PROVE FALSE
  BY <1>1, <1>4 DEF Show
<1>5. told' = told \/ (\E w \in Workers : Commit(w) /\ CommitEvent(w))
      \/ (\E o \in Operators, tr \in Transitions : Command(o, tr))
      \/ (\E b \in Chats : Show(b))
  BY DEF Next, EvaluateNext, OperatorNext, Gate, Load, Save, Check, Trip,
     AppendEvent, Commit, CommitPlain, Fail, Tick, Open, Close, Snapshot, vars,
     chatVars
<1> QED
  BY <1>1, <1>2, <1>3, <1>4, <1>5

\* A chat that is told "ok" for /halt finds the switch on, for any number of
\* daemons, terminals, chats, commands and faults, as long as no resume
\* commits in the 30-second bucket of a halt that was answered
\* (command_handler.dispatch's key of command, sender and bucket).
THEOREM HaltNeedsSameBucket == Spec /\ ResumesApart => HaltIsHonoured
<1>1. Init => KeysPast /\ KeyedIsOn
  BY DEF Init, KeysPast, KeyedIsOn
<1>2. /\ TInv /\ Past /\ KeysPast /\ KeyedIsOn /\ [Next]_vars /\ [HaltStands]_vars
        => (KeysPast /\ KeyedIsOn)'
  BY KeysStep, KeyedStep
<1>3. TInv /\ Past /\ KeyedIsOn /\ [Next]_vars => [HaltAnswered]_vars
  BY HaltStep
<1>4. Spec => [](TInv /\ Past)
  <2>1. DInv => Past
    BY DEF DInv
  <2> QED
    BY <2>1, Tripping, PTL
<1>5. [][HaltAnswered]_vars => HaltIsHonoured
  BY DEF HaltAnswered, HaltIsHonoured
<1> QED
  BY <1>1, <1>2, <1>3, <1>4, <1>5, PTL DEF Spec, ResumesApart

===============================================================================

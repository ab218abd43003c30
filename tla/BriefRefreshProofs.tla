------------------------- MODULE BriefRefreshProofs -------------------------
(***************************************************************************)
(* Theorems about BriefRefresh, for any jobs, watchlists and bounds.       *)
(*                                                                         *)
(* The versions of a symbol are linear because a job inserts its brief     *)
(* only while nobody else can commit, under a version that follows one it  *)
(* has seen and that the unique constraint finds free.                     *)
(***************************************************************************)
EXTENDS BriefRefresh, TLAPS

-----------------------------------------------------------------------------
(* The inductive invariant.                                                *)

Linear(rows, t) ==
    /\ \A s \in Symbols : \E n \in Nat : Versions(rows, s) = 1..n
    /\ \A a, b \in rows :
          a.symbol = b.symbol =>
             /\ a.version = b.version => a = b
             /\ a.version < b.version => a.at <= b.at
    /\ \A a \in rows : a.at <= t

\* Where a job is: within a symbol, or about to publish.
Places ==
    \A j \in Jobs :
       /\ pc[j] \in {"register", "ingest", "calling", "version", "insert"}
          => todo[j] # <<>>
       /\ pc[j] = "flush" => ~dead[j] /\ lock # j

\* Only the holder of the lock has written anything.
Holder ==
    \A j \in Jobs : lock # j => work[j] = Empty

\* A snapshot is an earlier state of the database.
Snapshots ==
    \A j \in Jobs : snap[j] # Unread =>
       /\ snap[j].briefs \subseteq db.briefs
       /\ Linear(snap[j].briefs, now)

\* A version to be inserted follows one that exists.
Follows(j, v) ==
    v - 1 \in {0} \cup Versions(Visible(j).briefs, Symbol(j))

Candidates ==
    \A j \in Jobs : pc[j] = "insert" => Follows(j, version[j])

Announced ==
    \A j \in Jobs :
       /\ \A e \in bus[j] : e.version \in Versions(db.briefs, e.symbol)
       /\ ~dead[j] => \A e \in outbox[j] :
             e.version \in Versions(Visible(j).briefs, e.symbol)

Lines ==
    /\ Linear(db.briefs, now)
    /\ \A j \in Jobs : Linear(Visible(j).briefs, now)

Inv == TypeOK /\ Places /\ Holder /\ Lines /\ Snapshots /\ Candidates /\ Announced

-----------------------------------------------------------------------------
(* Operators.                                                              *)

LEMMA NewestOf ==
    ASSUME NEW n \in Nat
    PROVE  Newest(1..n) = n
<1>1. n \in (1..n) \cup {0} /\ \A w \in 1..n : w <= n
  OBVIOUS
<1>2. ASSUME NEW v \in (1..n) \cup {0}, \A w \in 1..n : w <= v
      PROVE  v = n
  BY <1>2
<1>3. QED
  BY <1>1, <1>2 DEF Newest

\* More rows, more versions.
LEMMA VersionsGrow ==
    ASSUME NEW S, NEW T, S \subseteq T, NEW s
    PROVE  Versions(S, s) \subseteq Versions(T, s)
BY DEF Versions, Of

LEMMA DatabaseParts ==
    /\ Empty \in Databases
    /\ \A a, b \in Databases :
         /\ Both(a, b) \in Databases
         /\ Both(a, b).briefs = a.briefs \cup b.briefs
         /\ Both(a, Empty) = a
    /\ \A a \in Databases :
         a.briefs \subseteq Rows /\ a.known \subseteq Symbols /\ a.priced \subseteq Symbols
<1>1. Empty \in Databases
  BY DEF Empty, Databases
<1>2. ASSUME NEW a \in Databases, NEW b \in Databases
      PROVE  Both(a, b) \in Databases /\ Both(a, b).briefs = a.briefs \cup b.briefs
  BY DEF Both, Databases
<1>3. ASSUME NEW a \in Databases
      PROVE  Both(a, Empty) = a
  BY DEF Both, Databases, Empty
<1>4. QED
  BY <1>1, <1>2, <1>3 DEF Databases

\* A row under a free version that follows an existing one, created now.
LEMMA Extend ==
    ASSUME now \in Nat, NEW rows \in SUBSET Rows, Linear(rows, now),
           NEW s \in Symbols, NEW v \in Nat,
           v - 1 \in {0} \cup Versions(rows, s), v \notin Versions(rows, s)
    PROVE  Linear(rows \cup {Brief(s, v, now)}, now)
<1> DEFINE new == Brief(s, v, now)
<1> DEFINE more == rows \cup {new}
<1>1. new.symbol = s /\ new.version = v /\ new.at = now
  BY DEF Brief
<1>2. PICK n \in Nat : Versions(rows, s) = 1..n
  BY DEF Linear
<1>3. v = n + 1
  BY <1>2
<1>4. Versions(more, s) = Versions(rows, s) \cup {v}
  BY <1>1 DEF Versions, Of
<1>5. Versions(more, s) = 1..(n + 1)
  <2>1. (1..n) \cup {n + 1} = 1..(n + 1)
    OBVIOUS
  <2>2. QED
    BY <1>2, <1>3, <1>4, <2>1
<1>6. ASSUME NEW t \in Symbols PROVE \E k \in Nat : Versions(more, t) = 1..k
  <2>1. CASE t = s
    BY <1>5, <2>1
  <2>2. CASE t # s
    <3>1. Of(more, t) = Of(rows, t)
      BY <1>1, <2>2 DEF Of
    <3>2. Versions(more, t) = Versions(rows, t)
      BY <3>1 DEF Versions
    <3>3. QED
      BY <3>2 DEF Linear
  <2>3. QED
    BY <2>1, <2>2
<1>7. \A a \in rows : a.symbol = s => a.version \in 1..n /\ a.version < v
  <2>1. \A a \in rows : a.symbol = s => a.version \in Versions(rows, s)
    BY DEF Versions, Of
  <2>2. QED
    BY <1>2, <1>3, <2>1
<1>8. \A a \in rows : a.at <= now /\ a.version \in Nat /\ a.at \in Nat
  BY DEF Linear, Rows
<1>9. ASSUME NEW a \in more, NEW b \in more, a.symbol = b.symbol
      PROVE  /\ a.version = b.version => a = b
             /\ a.version < b.version => a.at <= b.at
  <2>1. CASE a \in rows /\ b \in rows
    BY <1>9, <2>1 DEF Linear
  <2>2. CASE a = new /\ b = new
    BY <1>1, <2>2
  <2>3. CASE a \in rows /\ b = new
    BY <1>1, <1>7, <1>8, <1>9, <2>3
  <2>4. CASE a = new /\ b \in rows
    BY <1>1, <1>7, <1>8, <1>9, <2>4
  <2>5. QED
    BY <2>1, <2>2, <2>3, <2>4
<1>10. \A a \in more : a.at <= now
  BY <1>1, <1>8
<1>11. QED
  BY <1>6, <1>9, <1>10 DEF Linear

\* What is linear now is linear later.
LEMMA LaterLinear ==
    ASSUME NEW t \in Nat, NEW u \in Nat, t <= u, NEW rows \in SUBSET Rows, Linear(rows, t)
    PROVE  Linear(rows, u)
<1>1. \A a \in rows : a.at \in Nat
  BY DEF Rows
<1>2. \A a \in rows : a.at <= u
  BY <1>1 DEF Linear
<1>3. QED
  BY <1>2 DEF Linear

-----------------------------------------------------------------------------
(* Type correctness.                                                       *)

LEMMA InitType == Init => TypeOK
BY BriefAssumption, DatabaseParts DEF Init, TypeOK

\* The parts of a transaction are well typed after every statement.
Transactions ==
    /\ db \in Databases
    /\ lock \in Jobs \cup {Nobody}
    /\ open \in [Jobs -> BOOLEAN]
    /\ work \in [Jobs -> Databases]

LEMMA SavepointType ==
    ASSUME Transactions, NEW j \in Jobs, NEW rows \in Databases, Savepoint(j, rows)
    PROVE  Transactions'
<1>1. CASE open[j]
  <2>1. Both(work[j], rows) \in Databases
    BY DatabaseParts DEF Transactions
  <2>2. QED
    BY <1>1, <2>1 DEF Transactions, Savepoint, Lock
<1>2. CASE ~open[j]
  BY <1>2, DatabaseParts DEF Transactions, Savepoint
<1>3. QED
  BY <1>1, <1>2

LEMMA StatementType ==
    ASSUME Transactions, NEW j \in Jobs, Duplicate(j) \/ Blocked(j)
    PROVE  Transactions'
BY DEF Transactions, Duplicate, Blocked, Lock

LEMMA RollbackType ==
    ASSUME Transactions, NEW j \in Jobs, Rollback(j),
           db' = db \/ db' = Visible(j)
    PROVE  Transactions'
<1>1. Visible(j) \in Databases
  BY DatabaseParts DEF Transactions, Visible
<1>2. QED
  BY <1>1, DatabaseParts DEF Transactions, Rollback

\* What a job reads.
LEMMA ViewType ==
    ASSUME TypeOK, NEW j \in Jobs
    PROVE  /\ Visible(j) \in Databases
           /\ View(j) \in Databases
           /\ Read(j) => snap' \in [Jobs -> Databases \cup {Unread}]
<1>1. Visible(j) \in Databases
  BY DatabaseParts DEF TypeOK, Visible
<1>2. View(j) \in Databases
  BY <1>1 DEF TypeOK, View
<1>3. QED
  BY <1>1, <1>2 DEF TypeOK, Read

\* What a job is about.
LEMMA SymbolType ==
    ASSUME TypeOK, NEW j \in Jobs, todo[j] # <<>>
    PROVE  /\ Symbol(j) \in Symbols
           /\ Tail(todo[j]) \in Seq(Symbols)
           /\ [Empty EXCEPT !.known = {Symbol(j)}] \in Databases
           /\ [Empty EXCEPT !.priced = {Symbol(j)}] \in Databases
<1>1. todo[j] \in Seq(Symbols)
  BY DEF TypeOK
<1>2. Symbol(j) \in Symbols /\ Tail(todo[j]) \in Seq(Symbols)
  BY <1>1 DEF Symbol
<1>3. QED
  BY <1>2 DEF Empty, Databases

\* The next version follows the newest one in the job's view.
LEMMA VersionType ==
    ASSUME TypeOK, Lines, Snapshots, NEW j \in Jobs, todo[j] # <<>>
    PROVE  NextVersion(j) \in Nat /\ Follows(j, NextVersion(j))
<1> DEFINE seen == View(j).briefs
<1>1. Linear(seen, now) /\ seen \subseteq Visible(j).briefs
  <2>1. Visible(j).briefs = db.briefs \cup work[j].briefs
    BY DEF Visible, Both
  <2>2. QED
    BY <2>1 DEF View, Lines, Snapshots
<1>2. Symbol(j) \in Symbols
  BY SymbolType
<1>3. PICK n \in Nat : Versions(seen, Symbol(j)) = 1..n
  BY <1>1, <1>2 DEF Linear
<1>4. NextVersion(j) = n + 1
  BY <1>3, NewestOf DEF NextVersion
<1>5. n \in {0} \cup Versions(seen, Symbol(j))
  BY <1>3
<1>6. Versions(seen, Symbol(j)) \subseteq Versions(Visible(j).briefs, Symbol(j))
  BY <1>1, VersionsGrow
<1>7. QED
  BY <1>4, <1>5, <1>6 DEF Follows

LEMMA NewBriefType ==
    ASSUME TypeOK, NEW j \in Jobs, todo[j] # <<>>
    PROVE  /\ NewBrief(j) \in Databases
           /\ NewBrief(j).briefs = {Brief(Symbol(j), version[j], now)}
           /\ Synthesized(Symbol(j), version[j]) \in Events
<1>1. Symbol(j) \in Symbols /\ version[j] \in Nat /\ now \in Nat
  BY SymbolType DEF TypeOK
<1>2. Brief(Symbol(j), version[j], now) \in Rows
  BY <1>1 DEF Brief, Rows
<1>3. QED
  BY <1>1, <1>2 DEF NewBrief, Empty, Databases, Synthesized, Events

\* The place of a job, when its symbol is over.
Control ==
    /\ pc \in [Jobs -> {"idle", "symbol", "register", "ingest", "calling", "version",
                        "insert", "flush"}]
    /\ todo \in [Jobs -> Seq(Symbols)]
    /\ version \in [Jobs -> Nat]
    /\ dead \in [Jobs -> BOOLEAN]

LEMMA RaiseType ==
    ASSUME TypeOK, NEW j \in Jobs, todo[j] # <<>>, Raise(j)
    PROVE  Control'
<1>1. Tail(todo[j]) \in Seq(Symbols)
  BY SymbolType
<1>2. QED
  BY <1>1 DEF TypeOK, Control, Raise, NextSymbol, Go

LEMMA StepType ==
    ASSUME TypeOK, Places, Lines, Snapshots, NEW j \in Jobs, Step(j)
    PROVE  TypeOK'
<1>0. Transactions
  BY DEF TypeOK, Transactions
<1> USE DEF TypeOK, Transactions, Control
<1>1. CASE Refused(j)
  BY <1>1, SymbolType DEF Refused, NextSymbol, Go, txnVars, busVars
<1>2. CASE Select(j)
  BY <1>2, ViewType DEF Select, Go, busVars
<1>3. CASE Register(j)
  <2>1. todo[j] # <<>>
    BY <1>3 DEF Register, Places
  <2>2. Transactions'
    BY <1>0, <1>3, <2>1, SymbolType, SavepointType, StatementType DEF Register
  <2>3. QED
    BY <1>3, <2>2 DEF Register, Go, busVars
<1>4. CASE RegisterBlocked(j)
  <2>1. todo[j] # <<>>
    BY <1>4 DEF RegisterBlocked, Places
  <2>2. Transactions'
    BY <1>0, <1>4, StatementType DEF RegisterBlocked
  <2>3. Control'
    BY <1>4, <2>1, RaiseType DEF RegisterBlocked
  <2>4. QED
    BY <1>4, <2>2, <2>3 DEF RegisterBlocked, busVars
<1>5. CASE Price(j)
  <2>1. todo[j] # <<>>
    BY <1>5 DEF Price, Places
  <2>2. Control'
    <3>1. CASE Raise(j)
      BY <2>1, <3>1, RaiseType
    <3>2. CASE Go(j, "calling") /\ UNCHANGED <<todo, version, dead>>
      BY <3>2 DEF Go
    <3>3. QED
      BY <1>5, <3>1, <3>2 DEF Price
  <2>3. snap' \in [Jobs -> Databases \cup {Unread}]
    BY <1>5, ViewType DEF Price
  <2>4. QED
    BY <1>5, <2>2, <2>3 DEF Price, busVars
<1>6. CASE Answer(j)
  <2>1. todo[j] # <<>>
    BY <1>6 DEF Answer, Places
  <2>2. Transactions'
    BY <1>0, <1>6, DatabaseParts, SavepointType, StatementType DEF Answer
  <2>3. Control'
    <3>1. CASE Raise(j)
      BY <2>1, <3>1, RaiseType
    <3>2. CASE Go(j, "version") /\ UNCHANGED <<todo, version, dead>>
      BY <3>2 DEF Go
    <3>3. QED
      BY <1>6, <3>1, <3>2 DEF Answer
  <2>4. QED
    BY <1>6, <2>2, <2>3 DEF Answer, busVars
<1>7. CASE CallFails(j)
  <2>1. todo[j] # <<>>
    BY <1>7 DEF CallFails, Places
  <2>2. Control'
    BY <1>7, <2>1, RaiseType DEF CallFails
  <2>3. QED
    BY <1>7, <2>2 DEF CallFails, busVars
<1>8. CASE ReadVersion(j)
  <2>1. todo[j] # <<>>
    BY <1>8 DEF ReadVersion, Places
  <2>2. QED
    BY <1>8, <2>1, ViewType, VersionType DEF ReadVersion, Go, busVars
<1>9. CASE Collide(j)
  <2>1. Transactions'
    BY <1>0, <1>9, RollbackType DEF Collide
  <2>2. QED
    BY <1>9, <2>1 DEF Collide, Rollback, Go, busVars
<1>10. CASE Insert(j)
  <2>1. todo[j] # <<>>
    BY <1>10 DEF Insert, Places
  <2>2. Both(work[j], NewBrief(j)) \in Databases
    BY <2>1, DatabaseParts, NewBriefType
  <2>3. outbox' \in [Jobs -> SUBSET Events]
    BY <1>10, <2>1, NewBriefType DEF Insert
  <2>4. QED
    BY <1>10, <2>1, <2>2, <2>3, SymbolType DEF Insert, Lock, NextSymbol, Go, busVars
<1>11. CASE InsertBlocked(j)
  <2>1. todo[j] # <<>>
    BY <1>11 DEF InsertBlocked, Places
  <2>2. Transactions'
    BY <1>0, <1>11, RollbackType DEF InsertBlocked
  <2>3. QED
    BY <1>11, <2>1, <2>2, SymbolType DEF InsertBlocked, Rollback, NextSymbol, Go, busVars
<1>12. CASE Commit(j)
  <2>1. Transactions'
    BY <1>0, <1>12, RollbackType DEF Commit
  <2>2. QED
    BY <1>12, <2>1 DEF Commit, Rollback, Go, busVars
<1>13. CASE Flush(j)
  BY <1>13 DEF Flush, Leave, Go
<1>14. CASE Abandon(j)
  <2>1. Transactions'
    BY <1>0, <1>14, RollbackType DEF Abandon
  <2>2. QED
    BY <1>14, <2>1 DEF Abandon, Rollback, Leave, Go, busVars
<1>15. QED
  BY <1>1, <1>2, <1>3, <1>4, <1>5, <1>6, <1>7, <1>8, <1>9, <1>10, <1>11, <1>12,
     <1>13, <1>14 DEF Step

LEMMA NextType ==
    ASSUME TypeOK, Places, Lines, Snapshots, [Next]_vars
    PROVE  TypeOK'
<1>1. CASE Tick
  BY <1>1 DEF Tick, TypeOK, txnVars, jobVars, busVars
<1>2. ASSUME NEW j \in Jobs, Start(j) PROVE TypeOK'
  <2>1. Watch[j] \in Seq(Symbols)
    BY BriefAssumption
  <2>2. QED
    BY <1>2, <2>1 DEF Start, TypeOK, Go, txnVars, busVars
<1>3. ASSUME NEW j \in Jobs, Fact(j) PROVE TypeOK'
  <2>1. todo[j] # <<>>
    BY <1>3 DEF Fact, Places
  <2>2. Transactions
    BY DEF TypeOK, Transactions
  <2>3. Transactions'
    <3>1. [Empty EXCEPT !.priced = {Symbol(j)}] \in Databases /\ Empty \in Databases
      BY <2>1, DatabaseParts, SymbolType
    <3>2. \/ \E rows \in Databases : Savepoint(j, rows)
          \/ Duplicate(j) \/ Blocked(j)
      BY <1>3, <3>1 DEF Fact
    <3>3. QED
      BY <2>2, <3>2, SavepointType, StatementType
  <2>4. QED
    BY <1>3, <2>3 DEF Fact, TypeOK, Transactions, jobVars, busVars
<1>4. ASSUME NEW j \in Jobs, Timeout(j) \/ Crash(j) PROVE TypeOK'
  <2>1. Rollback(j) /\ Leave(j) /\ db' = db
    BY <1>4 DEF Timeout, Crash
  <2>2. Transactions /\ Control
    BY DEF TypeOK, Transactions, Control
  <2>3. Transactions'
    BY <2>1, <2>2, RollbackType
  <2>4. Control'
    BY <2>1, <2>2 DEF Leave, Go, Control
  <2>5. snap \in [Jobs -> Databases \cup {Unread}] /\ outbox \in [Jobs -> SUBSET Events]
    BY DEF TypeOK
  <2>6. snap' \in [Jobs -> Databases \cup {Unread}]
    BY <2>1, <2>5 DEF Rollback
  <2>7. outbox' \in [Jobs -> SUBSET Events]
    BY <2>1, <2>5 DEF Leave
  <2>8. bus' \in [Jobs -> SUBSET Events] /\ faults' \in Nat
    <3>1. bus \in [Jobs -> SUBSET Events] /\ faults \in Nat
      BY DEF TypeOK
    <3>2. CASE Timeout(j)
      BY <3>1, <3>2 DEF Timeout, busVars
    <3>3. CASE Crash(j)
      BY <3>1, <3>3 DEF Crash
    <3>4. QED
      BY <1>4, <3>2, <3>3
  <2>9. UNCHANGED <<now, retained, runs>>
    BY <1>4 DEF Timeout, Crash, busVars
  <2>10. QED
    BY <2>3, <2>4, <2>6, <2>7, <2>8, <2>9 DEF TypeOK, Transactions, Control
<1>5. ASSUME NEW j \in Jobs, Deliver(j) PROVE TypeOK'
  <2>1. PICK e \in bus[j] :
          /\ bus' = [bus EXCEPT ![j] = @ \ {e}]
          /\ retained' = IF e.tenanted THEN retained \cup {<<e.symbol, e.version>>}
                         ELSE retained
          /\ UNCHANGED <<now, db, lock, txnVars, jobVars, runs, faults>>
    BY <1>5 DEF Deliver
  <2>2. e \in Events
    BY DEF TypeOK
  <2>3. e.symbol \in Symbols /\ e.version \in Nat
    BY <2>2 DEF Events
  <2>4. retained' \subseteq Symbols \X Nat
    BY <2>1, <2>3 DEF TypeOK
  <2>5. bus' \in [Jobs -> SUBSET Events]
    BY <2>1 DEF TypeOK
  <2>6. QED
    BY <2>1, <2>4, <2>5 DEF TypeOK, txnVars, jobVars
<1>6. CASE UNCHANGED vars
  BY <1>6 DEF vars, txnVars, jobVars, busVars, TypeOK
<1>7. QED
  BY <1>1, <1>2, <1>3, <1>4, <1>5, <1>6, StepType DEF Next

-----------------------------------------------------------------------------
(* Places and the lock.                                                    *)

\* A job's step leaves the places of the others alone.
LEMMA PlacesKept ==
    ASSUME TypeOK, Places, NEW j \in Jobs,
           \E p \in {"idle", "symbol", "register", "ingest", "calling", "version",
                     "insert", "flush"} : pc' = [pc EXCEPT ![j] = p],
           \A i \in Jobs \ {j} : todo'[i] = todo[i] /\ dead'[i] = dead[i],
           lock' \in {lock, j, Nobody},
           pc'[j] \in {"register", "ingest", "calling", "version", "insert"}
              => todo'[j] # <<>>,
           pc'[j] = "flush" => ~dead'[j] /\ lock' # j
    PROVE  Places'
<1> SUFFICES ASSUME NEW i \in Jobs
             PROVE  /\ pc'[i] \in {"register", "ingest", "calling", "version", "insert"}
                       => todo'[i] # <<>>
                    /\ pc'[i] = "flush" => ~dead'[i] /\ lock' # i
  BY DEF Places
<1>1. CASE i = j
  BY <1>1
<1>2. CASE i # j
  <2>1. pc'[i] = pc[i]
    BY <1>2 DEF TypeOK
  <2>2. Nobody # i
    BY BriefAssumption
  <2>3. QED
    BY <1>2, <2>1, <2>2 DEF Places
<1>3. QED
  BY <1>1, <1>2

LEMMA StepPlaces ==
    ASSUME TypeOK, Places, NEW j \in Jobs, Step(j)
    PROVE  Places'
<1> USE DEF Go
<1>1. CASE Refused(j)
  BY <1>1, PlacesKept DEF Refused, NextSymbol, TypeOK, txnVars
<1>2. CASE Select(j)
  BY <1>2, PlacesKept DEF Select, TypeOK
<1>3. CASE Register(j)
  <2>1. lock' \in {lock, j}
    BY <1>3 DEF Register, Savepoint, Duplicate, Lock
  <2>2. QED
    BY <1>3, <2>1, PlacesKept DEF Register, Places, TypeOK
<1>4. CASE RegisterBlocked(j)
  BY <1>4, PlacesKept DEF RegisterBlocked, Blocked, Raise, NextSymbol, TypeOK
<1>5. CASE Price(j)
  BY <1>5, PlacesKept DEF Price, Raise, NextSymbol, Places, TypeOK
<1>6. CASE Answer(j)
  <2>1. lock' \in {lock, j}
    BY <1>6 DEF Answer, Savepoint, Blocked, Lock
  <2>2. QED
    BY <1>6, <2>1, PlacesKept DEF Answer, Raise, NextSymbol, Places, TypeOK
<1>7. CASE CallFails(j)
  BY <1>7, PlacesKept DEF CallFails, Raise, NextSymbol, TypeOK
<1>8. CASE ReadVersion(j)
  BY <1>8, PlacesKept DEF ReadVersion, Places, TypeOK
<1>9. CASE Collide(j)
  BY <1>9, PlacesKept DEF Collide, Rollback, Places, TypeOK
<1>10. CASE Insert(j)
  BY <1>10, PlacesKept DEF Insert, Lock, NextSymbol, TypeOK
<1>11. CASE InsertBlocked(j)
  BY <1>11, PlacesKept DEF InsertBlocked, Rollback, NextSymbol, TypeOK
<1>12. CASE Commit(j)
  <2>1. Nobody # j
    BY BriefAssumption
  <2>2. QED
    BY <1>12, <2>1, PlacesKept DEF Commit, Rollback, TypeOK
<1>13. CASE Flush(j)
  BY <1>13, PlacesKept DEF Flush, Leave, TypeOK
<1>14. CASE Abandon(j)
  BY <1>14, PlacesKept DEF Abandon, Rollback, Leave, TypeOK
<1>15. QED
  BY <1>1, <1>2, <1>3, <1>4, <1>5, <1>6, <1>7, <1>8, <1>9, <1>10, <1>11, <1>12,
     <1>13, <1>14 DEF Step

LEMMA NextPlaces ==
    ASSUME TypeOK, Places, [Next]_vars
    PROVE  Places'
<1>1. CASE Tick \/ UNCHANGED vars
  BY <1>1 DEF Tick, Places, txnVars, jobVars, vars
<1>2. ASSUME NEW j \in Jobs, Start(j) PROVE Places'
  BY <1>2, PlacesKept DEF Start, Go, TypeOK, txnVars
<1>3. ASSUME NEW j \in Jobs, Fact(j) PROVE Places'
  <2>1. lock' \in {lock, j} /\ pc[j] = "ingest"
    BY <1>3 DEF Fact, Savepoint, Duplicate, Blocked, Lock
  <2>2. pc' = pc /\ todo' = todo /\ dead' = dead
    BY <1>3 DEF Fact, jobVars
  <2>3. QED
    BY <2>1, <2>2 DEF Places
<1>4. ASSUME NEW j \in Jobs, Timeout(j) \/ Crash(j) PROVE Places'
  BY <1>4, PlacesKept DEF Timeout, Crash, Rollback, Leave, Go, TypeOK
<1>5. ASSUME NEW j \in Jobs, Deliver(j) PROVE Places'
  BY <1>5 DEF Deliver, Places, txnVars, jobVars
<1>6. QED
  BY <1>1, <1>2, <1>3, <1>4, <1>5, StepPlaces DEF Next

\* What a step does to the lock and to what has been written.
LEMMA NextHolder ==
    ASSUME TypeOK, Holder, [Next]_vars
    PROVE  Holder'
<1> SUFFICES ASSUME NEW i \in Jobs, lock' # i PROVE work'[i] = Empty
  BY DEF Holder
<1>0. Nobody \notin Jobs /\ work \in [Jobs -> Databases]
  BY BriefAssumption DEF TypeOK
<1>1. CASE UNCHANGED <<lock, work>>
  BY <1>1 DEF Holder
<1>2. ASSUME NEW j \in Jobs, Rollback(j) PROVE work'[i] = Empty
  BY <1>0, <1>2 DEF Rollback, Holder
<1>3. ASSUME NEW j \in Jobs, NEW rows, Savepoint(j, rows) PROVE work'[i] = Empty
  <2>1. CASE open[j]
    BY <1>0, <1>3, <2>1 DEF Savepoint, CanWrite, Lock, Holder
  <2>2. CASE ~open[j]
    BY <1>3, <2>2 DEF Savepoint, Holder
  <2>3. QED
    BY <2>1, <2>2
<1>4. ASSUME NEW j \in Jobs, Duplicate(j) PROVE work'[i] = Empty
  BY <1>0, <1>4 DEF Duplicate, CanWrite, Lock, Holder
<1>5. ASSUME NEW j \in Jobs, Insert(j) PROVE work'[i] = Empty
  BY <1>0, <1>5 DEF Insert, CanWrite, Lock, Holder
<1>6. CASE Tick \/ UNCHANGED vars
  BY <1>1, <1>6 DEF Tick, vars, txnVars
<1>7. ASSUME NEW j \in Jobs, Start(j) \/ Fact(j) \/ Timeout(j) \/ Crash(j) \/ Deliver(j)
      PROVE  work'[i] = Empty
  BY <1>1, <1>2, <1>3, <1>4, <1>7
  DEF Start, Fact, Blocked, Timeout, Crash, Deliver, txnVars
<1>8. ASSUME NEW j \in Jobs, Step(j) PROVE work'[i] = Empty
  <2>1. CASE Refused(j) \/ Select(j) \/ RegisterBlocked(j) \/ Price(j) \/ CallFails(j)
             \/ ReadVersion(j) \/ Flush(j)
    BY <1>1, <2>1
    DEF Refused, Select, RegisterBlocked, Blocked, Price, CallFails, ReadVersion, Flush,
        txnVars
  <2>2. CASE Register(j) \/ Answer(j)
    BY <1>1, <1>3, <1>4, <2>2 DEF Register, Answer, Blocked
  <2>3. CASE Collide(j) \/ InsertBlocked(j) \/ Commit(j) \/ Abandon(j)
    BY <1>2, <2>3 DEF Collide, InsertBlocked, Commit, Abandon
  <2>4. QED
    BY <1>5, <1>8, <2>1, <2>2, <2>3 DEF Step
<1>9. QED
  BY <1>6, <1>7, <1>8 DEF Next

-----------------------------------------------------------------------------
(* What a step does to the rows.                                           *)

Moves(j) ==
    Start(j) \/ Step(j) \/ Fact(j) \/ Timeout(j) \/ Crash(j) \/ Deliver(j)

LEMMA SavepointLocal ==
    ASSUME TypeOK, NEW j \in Jobs, NEW i \in Jobs \ {j},
           \/ \E rows : Savepoint(j, rows)
           \/ Duplicate(j) \/ Blocked(j) \/ Rollback(j)
    PROVE  work'[i] = work[i]
<1>1. work \in [Jobs -> Databases]
  BY DEF TypeOK
<1>2. QED
  BY <1>1 DEF Savepoint, Duplicate, Blocked, Rollback

\* A job leaves the variables of the other jobs alone.
LEMMA Local ==
    ASSUME TypeOK, NEW j \in Jobs, Moves(j), NEW i \in Jobs \ {j}
    PROVE  /\ pc'[i] = pc[i] /\ todo'[i] = todo[i] /\ version'[i] = version[i]
           /\ dead'[i] = dead[i] /\ outbox'[i] = outbox[i]
           /\ snap'[i] = snap[i] /\ work'[i] = work[i]
<1> DEFINE Alone == /\ pc'[i] = pc[i] /\ todo'[i] = todo[i] /\ version'[i] = version[i]
                    /\ dead'[i] = dead[i] /\ outbox'[i] = outbox[i]
<1>1. /\ Control /\ outbox \in [Jobs -> SUBSET Events]
      /\ snap \in [Jobs -> Databases \cup {Unread}]
  BY DEF TypeOK, Control
<1>2. Leave(j) => Alone
  BY <1>1 DEF Leave, Go, Control
<1>3. Raise(j) /\ UNCHANGED outbox => Alone
  BY <1>1 DEF Raise, NextSymbol, Go, Control
<1>4. (Rollback(j) \/ Read(j)) => snap'[i] = snap[i]
  BY <1>1 DEF Rollback, Read
<1> HIDE DEF Alone
<1>5. CASE Start(j)
  BY <1>1, <1>5 DEF Start, Go, Control, txnVars, Alone
<1>6. CASE Fact(j)
  BY <1>6, SavepointLocal DEF Fact, jobVars, Alone
<1>7. CASE Timeout(j)
  BY <1>2, <1>4, <1>7, SavepointLocal DEF Timeout, Alone
<1>8. CASE Crash(j)
  BY <1>2, <1>4, <1>8, SavepointLocal DEF Crash, Alone
<1>9. CASE Deliver(j)
  BY <1>9 DEF Deliver, txnVars, jobVars, Alone
<1>10. CASE Refused(j)
  BY <1>1, <1>10 DEF Refused, NextSymbol, Go, Control, txnVars, Alone
<1>11. CASE Select(j)
  BY <1>1, <1>4, <1>11 DEF Select, Go, Control, Alone
<1>12. CASE Price(j)
  <2>1. Alone
    <3>1. CASE Raise(j)
      BY <1>3, <1>12, <3>1 DEF Price
    <3>2. CASE Go(j, "calling") /\ UNCHANGED <<todo, version, dead>>
      BY <1>1, <1>12, <3>2 DEF Price, Go, Control, Alone
    <3>3. QED
      BY <1>12, <3>1, <3>2 DEF Price
  <2>2. QED
    BY <1>4, <1>12, <2>1 DEF Price, Alone
<1>13. CASE CallFails(j)
  BY <1>3, <1>13 DEF CallFails, Alone
<1>14. CASE ReadVersion(j)
  BY <1>1, <1>4, <1>14 DEF ReadVersion, Go, Control, Alone
<1>15. CASE Flush(j)
  BY <1>2, <1>15 DEF Flush, Alone
<1>16. CASE Register(j)
  <2>1. work'[i] = work[i]
    BY <1>16, SavepointLocal DEF Register
  <2>2. QED
    BY <1>1, <1>16, <2>1 DEF Register, Go, Control
<1>17. CASE RegisterBlocked(j)
  BY <1>3, <1>17, SavepointLocal DEF RegisterBlocked, Alone
<1>18. CASE Answer(j)
  <2>1. Alone
    <3>1. CASE Raise(j)
      BY <1>3, <1>18, <3>1 DEF Answer
    <3>2. CASE Go(j, "version") /\ UNCHANGED <<todo, version, dead>>
      BY <1>1, <1>18, <3>2 DEF Answer, Go, Control, Alone
    <3>3. QED
      BY <1>18, <3>1, <3>2 DEF Answer
  <2>2. QED
    BY <1>18, <2>1, SavepointLocal DEF Answer, Alone
<1>19. CASE Collide(j)
  BY <1>1, <1>4, <1>19, SavepointLocal DEF Collide, Go, Control
<1>20. CASE InsertBlocked(j)
  BY <1>1, <1>4, <1>20, SavepointLocal DEF InsertBlocked, NextSymbol, Go, Control
<1>21. CASE Commit(j)
  BY <1>1, <1>4, <1>21, SavepointLocal DEF Commit, Go, Control
<1>22. CASE Abandon(j)
  BY <1>2, <1>4, <1>22, SavepointLocal DEF Abandon, Alone
<1>23. CASE Insert(j)
  <2>1. work'[i] = work[i]
    BY <1>23 DEF Insert, TypeOK
  <2>2. QED
    BY <1>1, <1>23, <2>1 DEF Insert, NextSymbol, Go, Control
<1>24. QED
  BY <1>5, <1>6, <1>7, <1>8, <1>9, <1>10, <1>11, <1>12, <1>13, <1>14, <1>15, <1>16, <1>17,
     <1>18, <1>19, <1>20, <1>21, <1>22, <1>23 DEF Moves, Step, Alone

\* Steps that write no brief.
Quiet(j) ==
    /\ db'.briefs = db.briefs
    /\ work'[j].briefs = work[j].briefs
    /\ outbox' = outbox
    /\ dead[j] => dead'[j]
    /\ pc'[j] # "insert" \/ (/\ pc[j] = "insert" /\ UNCHANGED <<todo, version>>)
    /\ UNCHANGED now

Quits(j) ==
    /\ Rollback(j)
    /\ pc'[j] # "insert"
    /\ UNCHANGED <<now, db>>
    /\ dead'[j] \/ outbox'[j] = {}

\* A statement that writes no brief.
LEMMA SavepointQuiet ==
    ASSUME TypeOK, NEW j \in Jobs,
           \/ \E rows \in Databases : rows.briefs = {} /\ Savepoint(j, rows)
           \/ Duplicate(j) \/ Blocked(j)
    PROVE  db'.briefs = db.briefs /\ work'[j].briefs = work[j].briefs
<1>1. db \in Databases /\ work[j] \in Databases /\ work \in [Jobs -> Databases]
  BY DEF TypeOK
<1>2. ASSUME NEW rows \in Databases, rows.briefs = {}, Savepoint(j, rows)
      PROVE  db'.briefs = db.briefs /\ work'[j].briefs = work[j].briefs
  <2>1. Both(work[j], rows).briefs = work[j].briefs
    BY <1>1, <1>2 DEF Both
  <2>2. Both(db, rows).briefs = db.briefs
    BY <1>1, <1>2 DEF Both
  <2>3. QED
    BY <1>1, <1>2, <2>1, <2>2 DEF Savepoint
<1>3. QED
  BY <1>2 DEF Duplicate, Blocked

LEMMA EmptyParts ==
    ASSUME NEW j
    PROVE  /\ Empty.briefs = {}
           /\ [Empty EXCEPT !.known = {Symbol(j)}].briefs = {}
           /\ [Empty EXCEPT !.priced = {Symbol(j)}].briefs = {}
BY DEF Empty

\* Every step of a job is quiet, ends its transaction, reads a version,
\* inserts or commits.
LEMMA Kinds ==
    ASSUME TypeOK, Places, NEW j \in Jobs, Moves(j)
    PROVE  Quiet(j) \/ Quits(j) \/ ReadVersion(j) \/ Insert(j) \/ Commit(j) \/ Flush(j)
<1>1. Control /\ outbox \in [Jobs -> SUBSET Events]
  BY DEF TypeOK, Control
<1>2. CASE Start(j) \/ Refused(j) \/ Select(j) \/ Price(j) \/ CallFails(j)
  BY <1>1, <1>2
  DEF Start, Refused, Select, Price, CallFails, Raise, NextSymbol, Go, Control, txnVars, Quiet
<1>3. CASE Deliver(j)
  BY <1>3 DEF Deliver, txnVars, jobVars, Quiet
<1>4. CASE Fact(j)
  <2>1. todo[j] # <<>>
    BY <1>4 DEF Fact, Places
  <2>2. db'.briefs = db.briefs /\ work'[j].briefs = work[j].briefs
    BY <1>4, <2>1, SymbolType, DatabaseParts, EmptyParts, SavepointQuiet DEF Fact
  <2>3. QED
    BY <1>4, <2>2 DEF Fact, jobVars, Quiet
<1>5. CASE Register(j)
  <2>1. todo[j] # <<>>
    BY <1>5 DEF Register, Places
  <2>2. db'.briefs = db.briefs /\ work'[j].briefs = work[j].briefs
    BY <1>5, <2>1, SymbolType, EmptyParts, SavepointQuiet DEF Register
  <2>3. QED
    BY <1>1, <1>5, <2>2 DEF Register, Go, Control, Quiet
<1>6. CASE RegisterBlocked(j)
  BY <1>1, <1>6, SavepointQuiet DEF RegisterBlocked, Raise, NextSymbol, Go, Control, Quiet
<1>7. CASE Answer(j)
  <2>1. db'.briefs = db.briefs /\ work'[j].briefs = work[j].briefs
    BY <1>7, DatabaseParts, EmptyParts, SavepointQuiet DEF Answer
  <2>2. QED
    BY <1>1, <1>7, <2>1 DEF Answer, Raise, NextSymbol, Go, Control, Quiet
<1>8. CASE Timeout(j) \/ Crash(j) \/ Abandon(j)
  BY <1>1, <1>8 DEF Timeout, Crash, Abandon, Leave, Go, Control, Quits
<1>9. CASE Collide(j) \/ InsertBlocked(j)
  BY <1>1, <1>9 DEF Collide, InsertBlocked, NextSymbol, Go, Control, Quits
<1>10. QED
  BY <1>2, <1>3, <1>4, <1>5, <1>6, <1>7, <1>8, <1>9 DEF Moves, Step

-----------------------------------------------------------------------------
(* The versions stay linear.                                               *)

\* What a job sees, from its parts.
LEMMA VisibleParts ==
    ASSUME TypeOK
    PROVE  /\ db.briefs \in SUBSET Rows /\ now \in Nat
           /\ \A j \in Jobs :
                /\ Visible(j) \in Databases /\ Visible(j).briefs \in SUBSET Rows
                /\ Visible(j).briefs = db.briefs \cup work[j].briefs
<1>1. ASSUME NEW j \in Jobs
      PROVE  /\ Visible(j) \in Databases /\ Visible(j).briefs \in SUBSET Rows
             /\ Visible(j).briefs = db.briefs \cup work[j].briefs
  BY DatabaseParts DEF TypeOK, Visible
<1>2. QED
  BY <1>1, DatabaseParts DEF TypeOK

\* Only Tick moves the clock.
LEMMA SameTime ==
    ASSUME NEW j \in Jobs, Moves(j)
    PROVE  now' = now
BY DEF Moves, Step, Start, Fact, Timeout, Crash, Deliver, Refused, Select, Register,
   RegisterBlocked, Price, Answer, CallFails, ReadVersion, Collide, Insert,
   InsertBlocked, Commit, Flush, Abandon

LEMMA TimePasses ==
    ASSUME TypeOK, [Next]_vars
    PROVE  now' \in Nat /\ now <= now'
<1>1. now \in Nat
  BY DEF TypeOK
<1>2. ASSUME NEW j \in Jobs, Moves(j) PROVE now' = now
  BY <1>2, SameTime
<1>3. QED
  BY <1>1, <1>2 DEF Next, Tick, vars, Moves

\* The rows a job inserts extend those it sees, which are all there are.
LEMMA InsertExtends ==
    ASSUME TypeOK, Places, Holder, Lines, Candidates, NEW j \in Jobs, Insert(j)
    PROVE  /\ Linear(Visible(j).briefs \cup {Brief(Symbol(j), version[j], now)}, now)
           /\ work'[j].briefs = work[j].briefs \cup {Brief(Symbol(j), version[j], now)}
           /\ \A i \in Jobs \ {j} : work[i] = Empty
<1>1. todo[j] # <<>> /\ ~Taken(j) /\ CanWrite(j)
  BY DEF Insert, Places
<1>2. Linear(Visible(j).briefs \cup {Brief(Symbol(j), version[j], now)}, now)
  <2>1. Symbol(j) \in Symbols /\ version[j] \in Nat
    BY <1>1, SymbolType DEF TypeOK
  <2>2. Linear(Visible(j).briefs, now) /\ Visible(j).briefs \in SUBSET Rows /\ now \in Nat
    BY VisibleParts DEF Lines
  <2>3. version[j] \notin Versions(Visible(j).briefs, Symbol(j))
    BY <1>1 DEF Taken
  <2>4. version[j] - 1 \in {0} \cup Versions(Visible(j).briefs, Symbol(j))
    BY DEF Insert, Candidates, Follows
  <2>5. QED
    BY <2>1, <2>2, <2>3, <2>4, Extend
<1>3. work'[j].briefs = work[j].briefs \cup {Brief(Symbol(j), version[j], now)}
  <2>1. work \in [Jobs -> Databases]
    BY DEF TypeOK
  <2>2. work'[j] = Both(work[j], NewBrief(j))
    BY <2>1 DEF Insert
  <2>3. NewBrief(j).briefs = {Brief(Symbol(j), version[j], now)}
    BY <1>1, NewBriefType
  <2>4. QED
    BY <2>2, <2>3 DEF Both
<1>4. \A i \in Jobs \ {j} : work[i] = Empty
  BY <1>1, BriefAssumption DEF CanWrite, Holder
<1>5. QED
  BY <1>2, <1>3, <1>4

\* The committed rows and what every job sees, after a step.
LEMMA JobLines ==
    ASSUME TypeOK, TypeOK', Places, Holder, Lines, Candidates, NEW j \in Jobs, Moves(j),
           NEW i \in Jobs
    PROVE  Linear(db'.briefs, now) /\ Linear(Visible(i)'.briefs, now)
<1>0. /\ Linear(db.briefs, now) /\ \A k \in Jobs : Linear(Visible(k).briefs, now)
      /\ \A k \in Jobs : Visible(k).briefs = db.briefs \cup work[k].briefs
      /\ Visible(i)'.briefs = db'.briefs \cup work'[i].briefs
      /\ Empty.briefs = {}
  <2>1. Visible(i)'.briefs = db'.briefs \cup work'[i].briefs
    BY DEF Visible, Both
  <2>2. QED
    BY <2>1, VisibleParts DEF Lines, Empty
<1>1. i # j => work'[i] = work[i]
  BY Local
<1>2. CASE Quiet(j)
  <2>1. db'.briefs = db.briefs /\ work'[i].briefs = work[i].briefs
    BY <1>1, <1>2 DEF Quiet
  <2>2. QED
    BY <1>0, <2>1
<1>3. ASSUME Rollback(j) PROVE work'[j] = Empty
  BY <1>3 DEF Rollback, TypeOK
<1>4. CASE Quits(j)
  <2>1. db' = db /\ Rollback(j)
    BY <1>4 DEF Quits
  <2>2. CASE i = j
    <3>1. Visible(i)'.briefs = db.briefs
      BY <1>0, <1>3, <2>1, <2>2
    <3>2. QED
      BY <1>0, <2>1, <3>1
  <2>3. CASE i # j
    BY <1>0, <1>1, <2>1, <2>3
  <2>4. QED
    BY <2>2, <2>3
<1>5. CASE ReadVersion(j) \/ Flush(j)
  BY <1>0, <1>5 DEF ReadVersion, Flush
<1>6. CASE Insert(j)
  <2>1. db' = db
    BY <1>6 DEF Insert
  <2>2. CASE i = j
    <3>1. Visible(i)'.briefs = Visible(j).briefs \cup {Brief(Symbol(j), version[j], now)}
      BY <1>0, <1>6, <2>1, <2>2, InsertExtends
    <3>2. QED
      BY <1>0, <1>6, <2>1, <3>1, InsertExtends
  <2>3. CASE i # j
    BY <1>0, <1>1, <2>1, <2>3
  <2>4. QED
    BY <2>2, <2>3
<1>7. CASE Commit(j)
  <2>1. db'.briefs = Visible(j).briefs /\ Rollback(j)
    BY <1>7 DEF Commit
  <2>2. CASE i = j
    BY <1>0, <1>3, <2>1, <2>2
  <2>3. CASE i # j
    <3>1. work[j] = Empty \/ work[i] = Empty
      BY <2>3 DEF Holder
    <3>2. Visible(i)'.briefs \in {Visible(i).briefs, Visible(j).briefs}
      BY <1>0, <1>1, <2>1, <2>3, <3>1
    <3>3. QED
      BY <1>0, <2>1, <3>2
  <2>4. QED
    BY <2>2, <2>3
<1>8. QED
  BY <1>2, <1>4, <1>5, <1>6, <1>7, Kinds

LEMMA NextLines ==
    ASSUME TypeOK, TypeOK', Places, Holder, Lines, Candidates, [Next]_vars
    PROVE  Lines'
<1>1. ASSUME NEW j \in Jobs, Moves(j) PROVE Lines'
  <2>1. now' = now
    BY <1>1, SameTime
  <2>2. QED
    BY <1>1, <2>1, JobLines DEF Lines
<1>2. CASE Tick \/ UNCHANGED vars
  <2>1. UNCHANGED <<db, work>>
    BY <1>2 DEF Tick, vars, txnVars
  <2>2. now' \in Nat /\ now <= now'
    BY TimePasses
  <2>3. Linear(db.briefs, now')
    BY <2>2, VisibleParts, LaterLinear DEF Lines
  <2>4. ASSUME NEW j \in Jobs PROVE Linear(Visible(j).briefs, now')
    BY <2>2, VisibleParts, LaterLinear DEF Lines
  <2>5. ASSUME NEW j \in Jobs PROVE Visible(j)' = Visible(j)
    BY <2>1 DEF Visible
  <2>6. QED
    BY <2>1, <2>3, <2>4, <2>5 DEF Lines
<1>3. QED
  BY <1>1, <1>2 DEF Next, Moves

-----------------------------------------------------------------------------
(* Snapshots and candidates.                                               *)

\* A step takes a snapshot only of what a job without the lock sees.
LEMMA TakesSnapshot ==
    ASSUME TypeOK, NEW j \in Jobs, Moves(j)
    PROVE  snap'[j] \in {snap[j], Unread} \/ (snap'[j] = View(j) /\ lock # j)
<1>1. snap \in [Jobs -> Databases \cup {Unread}]
  BY DEF TypeOK
<1>2. Rollback(j) => snap'[j] = Unread
  BY <1>1 DEF Rollback
<1>3. Read(j) => snap'[j] = snap[j] \/ (snap'[j] = View(j) /\ lock # j)
  BY <1>1 DEF Read
<1>4. CASE Start(j) \/ Fact(j) \/ Deliver(j) \/ Refused(j) \/ Register(j)
           \/ RegisterBlocked(j) \/ Answer(j) \/ CallFails(j) \/ Insert(j) \/ Flush(j)
  BY <1>4 DEF Start, Fact, Deliver, Refused, Register, RegisterBlocked, Answer, CallFails,
     Insert, Flush, txnVars
<1>5. CASE Select(j) \/ Price(j) \/ ReadVersion(j)
  BY <1>3, <1>5 DEF Select, Price, ReadVersion
<1>6. CASE Timeout(j) \/ Crash(j) \/ Collide(j) \/ InsertBlocked(j) \/ Commit(j)
           \/ Abandon(j)
  BY <1>2, <1>6 DEF Timeout, Crash, Collide, InsertBlocked, Commit, Abandon
<1>7. QED
  BY <1>4, <1>5, <1>6 DEF Moves, Step

\* Committed briefs stay.
LEMMA BriefsStay ==
    ASSUME TypeOK, Places, NEW j \in Jobs, Moves(j)
    PROVE  db.briefs \subseteq db'.briefs
<1>1. CASE Commit(j)
  BY <1>1, VisibleParts DEF Commit
<1>2. CASE Quiet(j) \/ Quits(j) \/ ReadVersion(j) \/ Insert(j) \/ Flush(j)
  BY <1>2 DEF Quiet, Quits, ReadVersion, Insert, Flush
<1>3. QED
  BY <1>1, <1>2, Kinds

LEMMA NextSnapshots ==
    ASSUME TypeOK, Places, Holder, Lines, Snapshots, [Next]_vars
    PROVE  Snapshots'
<1> SUFFICES ASSUME NEW i \in Jobs, snap'[i] # Unread
             PROVE  /\ snap'[i].briefs \subseteq db'.briefs
                    /\ Linear(snap'[i].briefs, now')
  BY DEF Snapshots
<1>0. snap[i] # Unread => /\ snap[i].briefs \subseteq db.briefs
                          /\ Linear(snap[i].briefs, now)
                          /\ snap[i].briefs \in SUBSET Rows
  BY VisibleParts DEF Snapshots
<1>1. ASSUME NEW j \in Jobs, Moves(j)
      PROVE  /\ snap'[i].briefs \subseteq db'.briefs
             /\ Linear(snap'[i].briefs, now')
  <2>1. db.briefs \subseteq db'.briefs /\ now' = now
    BY <1>1, BriefsStay, SameTime
  <2>2. CASE snap'[i] = snap[i]
    BY <1>0, <2>1, <2>2
  <2>3. CASE snap'[i] # snap[i]
    <3>1. i = j
      BY <1>1, <2>3, Local
    <3>2. snap'[i] = View(i) /\ lock # i
      BY <1>1, <2>3, <3>1, TakesSnapshot
    <3>3. CASE snap[i] = Unread
      <4>1. snap'[i] = Visible(i) /\ work[i] = Empty
        BY <3>2, <3>3 DEF View, Holder
      <4>2. snap'[i].briefs = db.briefs
        <5>1. Visible(i).briefs = db.briefs \cup work[i].briefs
          BY VisibleParts
        <5>2. Empty.briefs = {}
          BY DEF Empty
        <5>3. QED
          BY <4>1, <5>1, <5>2
      <4>3. QED
        BY <2>1, <4>2 DEF Lines
    <3>4. CASE snap[i] # Unread
      BY <2>3, <3>2, <3>4 DEF View
    <3>5. QED
      BY <3>3, <3>4
  <2>4. QED
    BY <2>2, <2>3
<1>2. CASE Tick \/ UNCHANGED vars
  <2>1. UNCHANGED <<db, snap>>
    BY <1>2 DEF Tick, vars, txnVars
  <2>2. now \in Nat /\ now' \in Nat /\ now <= now'
    BY TimePasses, VisibleParts
  <2>3. snap[i] # Unread
    BY <2>1
  <2>4. Linear(snap[i].briefs, now')
    BY <1>0, <2>2, <2>3, LaterLinear
  <2>5. QED
    BY <1>0, <2>1, <2>3, <2>4
<1>3. QED
  BY <1>1, <1>2 DEF Next, Moves

\* What a job sees of the briefs only grows while it waits to insert.
LEMMA NextCandidates ==
    ASSUME TypeOK, TypeOK', Places, Lines, Snapshots, Candidates, [Next]_vars
    PROVE  Candidates'
<1> SUFFICES ASSUME NEW i \in Jobs, pc'[i] = "insert"
             PROVE  Follows(i, version[i])'
  BY DEF Candidates
<1>0. /\ Visible(i).briefs = db.briefs \cup work[i].briefs
      /\ Visible(i)'.briefs = db'.briefs \cup work'[i].briefs
  BY VisibleParts DEF Visible, Both
<1>1. ASSUME pc[i] = "insert", todo'[i] = todo[i], version'[i] = version[i],
             db.briefs \subseteq db'.briefs, work'[i].briefs = work[i].briefs
      PROVE  Follows(i, version[i])'
  <2>1. Follows(i, version[i]) /\ Symbol(i)' = Symbol(i)
    BY <1>1 DEF Candidates, Symbol
  <2>2. Visible(i).briefs \subseteq Visible(i)'.briefs
    BY <1>0, <1>1
  <2>3. Versions(Visible(i).briefs, Symbol(i)) \subseteq Versions(Visible(i)'.briefs, Symbol(i))
    BY <2>2, VersionsGrow
  <2>4. QED
    BY <1>1, <2>1, <2>3 DEF Follows
<1>2. ASSUME NEW j \in Jobs, Moves(j) PROVE Follows(i, version[i])'
  <2>1. db.briefs \subseteq db'.briefs
    BY <1>2, BriefsStay
  <2>2. CASE i # j
    <3>1. /\ pc'[i] = pc[i] /\ todo'[i] = todo[i] /\ version'[i] = version[i]
          /\ work'[i] = work[i]
      BY <1>2, <2>2, Local
    <3>2. QED
      BY <1>1, <2>1, <3>1
  <2>3. CASE i = j
    <3>1. CASE Quiet(j)
      BY <1>1, <2>1, <2>3, <3>1 DEF Quiet
    <3>2. CASE ReadVersion(j)
      <4>1. /\ version'[i] = NextVersion(i) /\ todo'[i] = todo[i] /\ todo[i] # <<>>
            /\ db' = db /\ work' = work
        BY <2>3, <3>2 DEF ReadVersion, Places, TypeOK
      <4>2. Follows(i, NextVersion(i))
        BY <4>1, VersionType
      <4>3. Visible(i)' = Visible(i) /\ Symbol(i)' = Symbol(i)
        BY <4>1 DEF Visible, Symbol
      <4>4. QED
        BY <4>1, <4>2, <4>3 DEF Follows
    <3>3. CASE Quits(j)
      BY <2>3, <3>3 DEF Quits
    <3>4. CASE Insert(j) \/ Commit(j) \/ Flush(j)
      <4>1. pc'[j] # "insert"
        BY <3>4 DEF Insert, Commit, Flush, NextSymbol, Leave, Go, TypeOK
      <4>2. QED
        BY <2>3, <4>1
    <3>5. QED
      BY <1>2, <3>1, <3>2, <3>3, <3>4, Kinds
  <2>4. QED
    BY <2>2, <2>3
<1>3. CASE Tick \/ UNCHANGED vars
  BY <1>1, <1>3 DEF Tick, vars, txnVars, jobVars
<1>4. QED
  BY <1>2, <1>3 DEF Next, Moves

-----------------------------------------------------------------------------
(* Announcements.                                                          *)

\* What a step does to the bus.
LEMMA BusMoves ==
    ASSUME TypeOK, NEW j \in Jobs, Moves(j), NEW i \in Jobs, NEW e \in bus'[i]
    PROVE  e \in bus[i] \/ (i = j /\ Flush(j) /\ e \in outbox[j])
<1>1. bus \in [Jobs -> SUBSET Events]
  BY DEF TypeOK
<1>2. CASE Flush(j)
  BY <1>1, <1>2 DEF Flush
<1>3. CASE Crash(j)
  BY <1>1, <1>3 DEF Crash
<1>4. CASE Deliver(j)
  BY <1>1, <1>4 DEF Deliver
<1>5. CASE Start(j) \/ Fact(j) \/ Timeout(j) \/ Refused(j) \/ Select(j) \/ Register(j)
           \/ RegisterBlocked(j) \/ Price(j) \/ Answer(j) \/ CallFails(j) \/ ReadVersion(j)
           \/ Collide(j) \/ Insert(j) \/ InsertBlocked(j) \/ Commit(j) \/ Abandon(j)
  BY <1>5 DEF Start, Fact, Timeout, Refused, Select, Register, RegisterBlocked, Price, Answer,
     CallFails, ReadVersion, Collide, Insert, InsertBlocked, Commit, Abandon, busVars
<1>6. QED
  BY <1>2, <1>3, <1>4, <1>5 DEF Moves, Step

\* What a job has buffered is what it sees, or its session is dead.
LEMMA OutboxMoves ==
    ASSUME TypeOK, TypeOK', Places, Announced, NEW j \in Jobs, Moves(j), ~dead'[j],
           NEW e \in outbox'[j]
    PROVE  e.version \in Versions(Visible(j)'.briefs, e.symbol)
<1>0. /\ Visible(j).briefs = db.briefs \cup work[j].briefs
      /\ Visible(j)'.briefs = db'.briefs \cup work'[j].briefs
  BY VisibleParts DEF Visible, Both
<1>1. db.briefs \subseteq db'.briefs
  BY BriefsStay
<1>2. ASSUME ~dead[j], e \in outbox[j], Visible(j).briefs \subseteq Visible(j)'.briefs
      PROVE  e.version \in Versions(Visible(j)'.briefs, e.symbol)
  BY <1>2, VersionsGrow DEF Announced
<1>3. CASE Quiet(j)
  BY <1>0, <1>1, <1>2, <1>3 DEF Quiet
<1>4. CASE Quits(j)
  BY <1>4 DEF Quits
<1>5. CASE ReadVersion(j)
  BY <1>0, <1>2, <1>5 DEF ReadVersion
<1>6. CASE Commit(j)
  BY <1>0, <1>2, <1>6 DEF Commit
<1>7. CASE Flush(j)
  <2>1. outbox'[j] = {}
    BY <1>7 DEF Flush, Leave, TypeOK
  <2>2. QED
    BY <2>1
<1>8. CASE Insert(j)
  <2>1. todo[j] # <<>> /\ ~dead[j] /\ db' = db
    BY <1>8 DEF Insert, Places
  <2>2. work'[j] = Both(work[j], NewBrief(j))
    BY <1>8 DEF Insert, TypeOK
  <2>3. work'[j].briefs = work[j].briefs \cup {Brief(Symbol(j), version[j], now)}
    BY <2>1, <2>2, NewBriefType DEF Both
  <2>4. Visible(j)'.briefs = Visible(j).briefs \cup {Brief(Symbol(j), version[j], now)}
    BY <1>0, <2>1, <2>3
  <2>5. CASE e \in outbox[j]
    BY <1>2, <2>1, <2>4, <2>5
  <2>6. CASE e \notin outbox[j]
    <3>1. e = Synthesized(Symbol(j), version[j])
      BY <1>8, <2>6 DEF Insert, TypeOK
    <3>2. e.symbol = Symbol(j) /\ e.version = version[j]
      BY <3>1 DEF Synthesized
    <3>3. Brief(Symbol(j), version[j], now).symbol = e.symbol
      BY <3>2 DEF Brief
    <3>4. Brief(Symbol(j), version[j], now).version = e.version
      BY <3>2 DEF Brief
    <3>5. QED
      BY <2>4, <3>3, <3>4 DEF Versions, Of
  <2>7. QED
    BY <2>5, <2>6
<1>9. QED
  BY <1>3, <1>4, <1>5, <1>6, <1>7, <1>8, Kinds

LEMMA NextAnnounced ==
    ASSUME TypeOK, TypeOK', Places, Holder, Announced, [Next]_vars
    PROVE  Announced'
<1> SUFFICES ASSUME NEW i \in Jobs
             PROVE  /\ \A e \in bus'[i] : e.version \in Versions(db'.briefs, e.symbol)
                    /\ ~dead'[i] => \A e \in outbox'[i] :
                          e.version \in Versions(Visible(i)'.briefs, e.symbol)
  BY DEF Announced
<1>1. ASSUME NEW j \in Jobs, Moves(j), NEW e \in bus'[i]
      PROVE  e.version \in Versions(db'.briefs, e.symbol)
  <2>1. Versions(db.briefs, e.symbol) \subseteq Versions(db'.briefs, e.symbol)
    BY <1>1, BriefsStay, VersionsGrow
  <2>2. CASE e \in bus[i]
    BY <2>1, <2>2 DEF Announced
  <2>3. CASE e \notin bus[i]
    <3>1. i = j /\ Flush(j) /\ e \in outbox[j]
      BY <1>1, <2>3, BusMoves
    <3>2. ~dead[j] /\ lock # j
      BY <3>1 DEF Flush, Places
    <3>3. Visible(j).briefs = db.briefs
      <4>1. Visible(j).briefs = db.briefs \cup work[j].briefs /\ work[j] = Empty
        BY <3>2, VisibleParts DEF Holder
      <4>2. Empty.briefs = {}
        BY DEF Empty
      <4>3. QED
        BY <4>1, <4>2
    <3>4. e.version \in Versions(db.briefs, e.symbol)
      BY <3>1, <3>2, <3>3 DEF Announced
    <3>5. QED
      BY <2>1, <3>4
  <2>4. QED
    BY <2>2, <2>3
<1>2. ASSUME NEW j \in Jobs, Moves(j), ~dead'[i], NEW e \in outbox'[i]
      PROVE  e.version \in Versions(Visible(i)'.briefs, e.symbol)
  <2>1. CASE i = j
    BY <1>2, <2>1, OutboxMoves
  <2>2. CASE i # j
    <3>1. dead'[i] = dead[i] /\ outbox'[i] = outbox[i] /\ work'[i] = work[i]
      BY <1>2, <2>2, Local
    <3>2. e.version \in Versions(Visible(i).briefs, e.symbol)
      BY <1>2, <3>1 DEF Announced
    <3>3. Visible(i).briefs \subseteq Visible(i)'.briefs
      <4>1. Visible(i).briefs = db.briefs \cup work[i].briefs
        BY VisibleParts
      <4>2. Visible(i)'.briefs = db'.briefs \cup work'[i].briefs
        BY DEF Visible, Both
      <4>3. db.briefs \subseteq db'.briefs
        BY <1>2, BriefsStay
      <4>4. QED
        BY <3>1, <4>1, <4>2, <4>3
    <3>4. QED
      BY <3>2, <3>3, VersionsGrow
  <2>3. QED
    BY <2>1, <2>2
<1>3. CASE Tick \/ UNCHANGED vars
  BY <1>3 DEF Tick, vars, txnVars, jobVars, busVars, Announced, Visible
<1>4. QED
  BY <1>1, <1>2, <1>3 DEF Next, Moves

-----------------------------------------------------------------------------
(* The theorems.                                                           *)

LEMMA InitInv == Init => Inv
<1> SUFFICES ASSUME Init PROVE Inv
  OBVIOUS
<1>1. TypeOK
  BY InitType
<1>2. Places /\ Candidates
  BY DEF Init, Places, Candidates
<1>3. Holder /\ Snapshots /\ Announced
  BY DEF Init, Holder, Snapshots, Announced
<1>4. db.briefs = {} /\ \A j \in Jobs : Visible(j).briefs = {}
  BY DEF Init, Visible, Both, Empty
<1>5. Linear({}, now)
  <2>1. \A s : Versions({}, s) = 1..0
    BY DEF Versions, Of
  <2>2. QED
    BY <2>1 DEF Linear
<1>6. Lines
  BY <1>4, <1>5 DEF Lines
<1>7. QED
  BY <1>1, <1>2, <1>3, <1>6 DEF Inv

LEMMA NextInv == Inv /\ [Next]_vars => Inv'
<1> SUFFICES ASSUME Inv, [Next]_vars PROVE Inv'
  OBVIOUS
<1> USE DEF Inv
<1>1. TypeOK'
  BY NextType
<1>2. Places' /\ Holder'
  BY NextPlaces, NextHolder
<1>3. Lines' /\ Snapshots' /\ Candidates' /\ Announced'
  BY <1>1, NextLines, NextSnapshots, NextCandidates, NextAnnounced
<1>4. QED
  BY <1>1, <1>2, <1>3

LEMMA Invariance == Spec => []Inv
BY InitInv, NextInv, PTL DEF Spec

\* The variables keep their types: next_version is a number although it is
\* computed from a snapshot, and the transaction of a session that timed out
\* between two statements is put together again from whole rows.
THEOREM TypeCorrect == Spec => []TypeOK
<1>1. Inv => TypeOK
  BY DEF Inv
<1>2. QED
  BY <1>1, Invariance, PTL

\* However many daemons, requests and commands refresh a symbol at a time,
\* the loop of _next_version and insert_brief (contexts/research/service.py)
\* commits its versions 1, 2, 3 ... without a gap or a repeat, in the order
\* of created_at: BriefsAreLinear.
THEOREM VersionsAreLinear == Spec => []BriefsAreLinear
<1>1. Inv => BriefsAreLinear
  <2> SUFFICES ASSUME Inv PROVE BriefsAreLinear
    OBVIOUS
  <2>1. Linear(db.briefs, now)
    BY DEF Inv, Lines
  <2>2. ASSUME NEW s \in Symbols
        PROVE  Versions(db.briefs, s) = 1..Newest(Versions(db.briefs, s))
    <3>1. PICK n \in Nat : Versions(db.briefs, s) = 1..n
      BY <2>1 DEF Linear
    <3>2. Newest(Versions(db.briefs, s)) = n
      BY <3>1, NewestOf
    <3>3. QED
      BY <3>1, <3>2
  <2>3. QED
    BY <2>1, <2>2 DEF Linear, BriefsAreLinear
<1>2. QED
  BY <1>1, Invariance, PTL

\* A daemon publishes ResearchBriefSynthesized only of briefs its session has
\* committed, whatever times out, collides or dies: AnnouncedIsCommitted.
THEOREM AnnouncementsAreCommitted == Spec => []AnnouncedIsCommitted
<1>1. Inv => AnnouncedIsCommitted
  BY DEF Inv, Announced, AnnouncedIsCommitted
<1>2. QED
  BY <1>1, Invariance, PTL

=============================================================================

---------------------------- MODULE BriefRefresh ----------------------------
(***************************************************************************)
(* Refreshing research briefs (contexts/research): BriefService.refresh    *)
(* as the daemons' daily cron, the REST route, the MCP tool and the        *)
(* command line run it, over one SQLite database with a single writer.     *)
(*                                                                         *)
(* A job refreshes its symbols one by one in one session.  Registration,   *)
(* facts and cost rows are inserted in SAVEPOINTs, the brief is not.  The  *)
(* driver opens no transaction for a SAVEPOINT or a SELECT, so that        *)
(*   - a first SAVEPOINT that is released is committed there and then;     *)
(*   - one that fails is rolled back to and not released: the transaction  *)
(*     it opened stays, with the write lock when a constraint failed;      *)
(*   - a transaction without the lock keeps the snapshot of its first      *)
(*     read, and cannot write once anybody else has committed;             *)
(*   - a flush that fails outside a SAVEPOINT rolls everything back and    *)
(*     leaves the session unusable until somebody calls rollback() on it.  *)
(***************************************************************************)
EXTENDS Integers, Sequences

CONSTANTS
    Jobs,
    Crons,      \* jobs of daemons: with a bus, an outbox and a timeout
    Symbols,
    Watch,      \* the symbols of a job, in its order
    Nobody,
    Unread,
    MaxRuns,    \* bounds: runs of a job,
    MaxTime,    \* seconds that pass,
    MaxFaults   \* timeouts and crashes

Rows == [symbol : Symbols, version : Nat, at : Nat]
Databases == [briefs : SUBSET Rows, known : SUBSET Symbols, priced : SUBSET Symbols]

ASSUME BriefAssumption ==
    /\ Crons \subseteq Jobs /\ Nobody \notin Jobs /\ Unread \notin Databases
    /\ Watch \in [Jobs -> Seq(Symbols)]
    /\ \A j \in Jobs \ Crons : Len(Watch[j]) <= 1   \* a request has one symbol
    /\ {MaxRuns, MaxTime, MaxFaults} \subseteq Nat

VARIABLES
    now,
    db,         \* what is committed: research_briefs, the symbols registered
                \* and those with a close price among their facts
    lock,       \* who holds the write lock of the database
    pc, todo,   \* where a job is, and the symbols it has not finished
    version,    \* next_version of its attempt
    open,       \* its session is inside a transaction
    snap,       \* what that transaction reads, unless it holds the lock
    work,       \* what it has written
    dead,       \* its session is to be rolled back
    outbox,     \* ResearchBriefSynthesized events it has buffered
    bus,        \* and those on the bus of its daemon
    retained,   \* external: briefs Hindsight was asked to retain
    runs, faults

txnVars == <<open, snap, work, dead>>
jobVars == <<pc, todo, version, outbox>>
busVars == <<bus, retained>>
vars == <<now, db, lock, txnVars, jobVars, busVars, runs, faults>>

Empty == [briefs |-> {}, known |-> {}, priced |-> {}]
Both(a, b) == [briefs |-> a.briefs \cup b.briefs, known |-> a.known \cup b.known,
               priced |-> a.priced \cup b.priced]

Brief(s, v, t) == [symbol |-> s, version |-> v, at |-> t]

\* The event carries no tenant: refresh does not pass tenant_id.
Synthesized(s, v) == [symbol |-> s, version |-> v, tenanted |-> FALSE]

Symbol(j) == Head(todo[j])
Of(rows, s) == {b \in rows : b.symbol = s}

-----------------------------------------------------------------------------
(* SQLite and the session.                                                 *)

Visible(j) == Both(db, work[j])
View(j) == IF lock = j \/ snap[j] = Unread THEN Visible(j) ELSE snap[j]

\* A statement reads: inside a transaction the first one fixes the snapshot.
Read(j) ==
    snap' = IF open[j] /\ lock # j THEN [snap EXCEPT ![j] = View(j)] ELSE snap

\* The write lock can be had, at once or within the 30 seconds of the driver.
CanWrite(j) ==
    \/ lock = j
    \/ lock = Nobody /\ snap[j] \in {Unread, db}

\* "database is locked": for 30 seconds, or because the snapshot is old (the
\* rest of the system commits all the time).
CannotWrite(j) == lock \notin {j, Nobody} \/ (lock # j /\ snap[j] # Unread)

\* The job owns the lock, within a transaction that ends with its session.
Lock(j) ==
    /\ lock' = j
    /\ open' = [open EXCEPT ![j] = TRUE]

\* A SAVEPOINT that writes rows.
Savepoint(j, rows) ==
    /\ CanWrite(j)
    /\ IF open[j]
       THEN /\ Lock(j)
            /\ work' = [work EXCEPT ![j] = Both(@, rows)]
            /\ UNCHANGED db
       ELSE db' = Both(db, rows) /\ UNCHANGED <<lock, open, work>>

\* A SAVEPOINT whose insert violates a constraint.
Duplicate(j) ==
    /\ CanWrite(j)
    /\ Lock(j)
    /\ UNCHANGED <<db, work>>

\* A SAVEPOINT whose insert finds the database locked.
Blocked(j) ==
    /\ CannotWrite(j)
    /\ open' = [open EXCEPT ![j] = TRUE]
    /\ UNCHANGED <<db, lock, work>>

Rollback(j) ==
    /\ work' = [work EXCEPT ![j] = Empty]
    /\ open' = [open EXCEPT ![j] = FALSE]
    /\ snap' = [snap EXCEPT ![j] = Unread]
    /\ lock' = IF lock = j THEN Nobody ELSE lock

-----------------------------------------------------------------------------
Init ==
    /\ now = 0
    /\ db = Empty
    /\ lock = Nobody
    /\ pc = [j \in Jobs |-> "idle"]
    /\ todo = [j \in Jobs |-> <<>>]
    /\ version = [j \in Jobs |-> 0]
    /\ open = [j \in Jobs |-> FALSE]
    /\ snap = [j \in Jobs |-> Unread]
    /\ work = [j \in Jobs |-> Empty]
    /\ dead = [j \in Jobs |-> FALSE]
    /\ outbox = [j \in Jobs |-> {}]
    /\ bus = [j \in Jobs |-> {}]
    /\ retained = {}
    /\ runs = [j \in Jobs |-> 0]
    /\ faults = 0

Tick ==
    /\ now < MaxTime
    /\ now' = now + 1
    /\ UNCHANGED <<db, lock, txnVars, jobVars, busVars, runs, faults>>

Go(j, step) == pc' = [pc EXCEPT ![j] = step]

\* The job is done with the symbol.
NextSymbol(j) ==
    /\ Go(j, "symbol")
    /\ todo' = [todo EXCEPT ![j] = Tail(@)]
    /\ version' = [version EXCEPT ![j] = 0]

\* refresh raises: a cron goes on with the next symbol, a request ends and
\* its session is rolled back.
Raise(j) ==
    /\ NextSymbol(j)
    /\ dead' = IF j \in Crons THEN dead ELSE [dead EXCEPT ![j] = TRUE]

\* A job opens its session.
Start(j) ==
    /\ pc[j] = "idle" /\ runs[j] < MaxRuns
    /\ runs' = [runs EXCEPT ![j] = @ + 1]
    /\ todo' = [todo EXCEPT ![j] = Watch[j]]
    /\ Go(j, "symbol")
    /\ UNCHANGED <<now, db, lock, txnVars, version, outbox, busVars, faults>>

\* The session refuses every statement: PendingRollbackError, which is no
\* IntegrityError, so that a retried insert never reads a version again.
Refused(j) ==
    /\ pc[j] \in {"symbol", "version"} /\ todo[j] # <<>> /\ dead[j]
    /\ NextSymbol(j)
    /\ UNCHANGED <<now, db, lock, txnVars, outbox, busVars, runs, faults>>

-----------------------------------------------------------------------------
(* ensure_symbol_registered and OnDemandIngestionService.ingest            *)

\* _select_ids.
Select(j) ==
    /\ pc[j] = "symbol" /\ todo[j] # <<>> /\ ~dead[j]
    /\ Read(j)
    /\ Go(j, IF Symbol(j) \in View(j).known THEN "ingest" ELSE "register")
    /\ UNCHANGED <<now, db, lock, open, work, dead, todo, version, outbox, busVars,
                   runs, faults>>

\* The two rows; a lost race selects the winner's.
Register(j) ==
    /\ pc[j] = "register"
    /\ Go(j, "ingest")
    /\ IF Symbol(j) \in Visible(j).known
       THEN Duplicate(j)
       ELSE Savepoint(j, [Empty EXCEPT !.known = {Symbol(j)}])
    /\ UNCHANGED <<now, snap, dead, todo, version, outbox, busVars, runs, faults>>

RegisterBlocked(j) ==
    /\ pc[j] = "register"
    /\ Blocked(j)
    /\ Raise(j)
    /\ UNCHANGED <<now, snap, outbox, busVars, runs, faults>>

\* The sources bring facts, each in a SAVEPOINT: a price, facts that are
\* there already, facts that find the database locked.  Other facts of a
\* session without a transaction change nothing that is modelled.
Fact(j) ==
    /\ pc[j] = "ingest"
    /\ \/ Savepoint(j, [Empty EXCEPT !.priced = {Symbol(j)}])
       \/ open[j] /\ Savepoint(j, Empty)
       \/ Duplicate(j)
       \/ Blocked(j)
    /\ UNCHANGED <<now, snap, dead, jobVars, busVars, runs, faults>>

\* The sources are exhausted, or failed, which is logged; the feature bundle
\* holds a close price, or InsufficientPriceDataError.
Price(j) ==
    /\ pc[j] = "ingest"
    /\ Read(j)
    /\ IF Symbol(j) \in View(j).priced
       THEN Go(j, "calling") /\ UNCHANGED <<todo, version, dead>>
       ELSE Raise(j)
    /\ UNCHANGED <<now, db, lock, open, work, outbox, busVars, runs, faults>>

-----------------------------------------------------------------------------
(* Synthesizer.synthesize with the cost meter                              *)

\* The model answers and its cost row is inserted, best effort; the brief is
\* accepted, or is short or cites unknown facts.
Answer(j) ==
    /\ pc[j] = "calling"
    /\ Savepoint(j, Empty) \/ Blocked(j)
    /\ \/ Go(j, "version") /\ UNCHANGED <<todo, version, dead>>
       \/ Raise(j)
    /\ UNCHANGED <<now, snap, outbox, busVars, runs, faults>>

\* The call raises: nothing is billed.
CallFails(j) ==
    /\ pc[j] = "calling"
    /\ Raise(j)
    /\ UNCHANGED <<now, db, lock, open, snap, work, outbox, busVars, runs,
                   faults>>

-----------------------------------------------------------------------------
(* The insert loop                                                         *)

\* _next_version: MAX(version) + 1 of the rows the session sees.
Versions(rows, s) == {b.version : b \in Of(rows, s)}
Newest(versions) == CHOOSE v \in versions \cup {0} : \A w \in versions : w <= v
NextVersion(j) == Newest(Versions(View(j).briefs, Symbol(j))) + 1

ReadVersion(j) ==
    /\ pc[j] = "version" /\ ~dead[j]
    /\ Read(j)
    /\ version' = [version EXCEPT ![j] = NextVersion(j)]
    /\ Go(j, "insert")
    /\ UNCHANGED <<now, db, lock, open, work, dead, todo, outbox, busVars, runs, faults>>

\* Mutant: no unique constraint.
NeverTaken(j) == FALSE

\* The unique constraint of research_briefs.
Taken(j) == version[j] \in Versions(Visible(j).briefs, Symbol(j))

\* Another brief has the version: the flush rolls the transaction back.
Collide(j) ==
    /\ pc[j] = "insert" /\ CanWrite(j) /\ Taken(j)
    /\ Rollback(j)
    /\ dead' = [dead EXCEPT ![j] = TRUE]
    /\ Go(j, "version")
    /\ UNCHANGED <<now, db, todo, version, outbox, busVars, runs, faults>>

NewBrief(j) == [Empty EXCEPT !.briefs = {Brief(Symbol(j), version[j], now)}]

\* Mutant: the event does not wait for the commit.
InsertAnnounces(j) ==
    /\ pc[j] = "insert" /\ CanWrite(j) /\ ~Taken(j)
    /\ Lock(j)
    /\ work' = [work EXCEPT ![j] = Both(@, NewBrief(j))]
    /\ bus' = [bus EXCEPT ![j] = @ \cup {Synthesized(Symbol(j), version[j])}]
    /\ NextSymbol(j)
    /\ UNCHANGED <<now, db, snap, dead, outbox, retained, runs, faults>>

\* The brief with its audit trail, and the event when there is a bus.
Insert(j) ==
    /\ pc[j] = "insert" /\ CanWrite(j) /\ ~Taken(j)
    /\ Lock(j)
    /\ work' = [work EXCEPT ![j] = Both(@, NewBrief(j))]
    /\ outbox' = IF j \in Crons
                 THEN [outbox EXCEPT ![j] = @ \cup {Synthesized(Symbol(j), version[j])}]
                 ELSE outbox
    /\ NextSymbol(j)
    /\ UNCHANGED <<now, db, snap, dead, busVars, runs, faults>>

\* "database is locked": an OperationalError, which is not retried.
InsertBlocked(j) ==
    /\ pc[j] = "insert" /\ CannotWrite(j)
    /\ Rollback(j)
    /\ dead' = [dead EXCEPT ![j] = TRUE]
    /\ NextSymbol(j)
    /\ UNCHANGED <<now, db, outbox, busVars, runs, faults>>

-----------------------------------------------------------------------------
(* The end of the session                                                  *)

\* Every symbol is done: commit, and publish what was buffered.
Commit(j) ==
    /\ pc[j] = "symbol" /\ todo[j] = <<>> /\ ~dead[j]
    /\ db' = Visible(j)
    /\ Rollback(j)      \* nothing is left of the transaction
    /\ Go(j, "flush")
    /\ UNCHANGED <<now, dead, todo, version, outbox, busVars, runs, faults>>

\* The job is over and its session closed.
Leave(j) ==
    /\ todo' = [todo EXCEPT ![j] = <<>>]
    /\ version' = [version EXCEPT ![j] = 0]
    /\ dead' = [dead EXCEPT ![j] = FALSE]
    /\ outbox' = [outbox EXCEPT ![j] = {}]
    /\ Go(j, "idle")

Flush(j) ==
    /\ pc[j] = "flush"
    /\ bus' = [bus EXCEPT ![j] = @ \cup outbox[j]]
    /\ Leave(j)
    /\ UNCHANGED <<now, db, lock, open, snap, work, retained, runs, faults>>

\* The commit of a dead session raises: it is rolled back, nothing published.
Abandon(j) ==
    /\ pc[j] = "symbol" /\ todo[j] = <<>> /\ dead[j]
    /\ Rollback(j) /\ Leave(j)
    /\ UNCHANGED <<now, db, busVars, runs, faults>>

\* Mutant: a cancelled job does not roll its session back.
TimeoutKeepsLock(j) ==
    /\ j \in Crons /\ pc[j] # "idle" /\ faults < MaxFaults
    /\ faults' = faults + 1
    /\ Leave(j)
    /\ UNCHANGED <<now, db, lock, open, snap, work, busVars, runs>>

\* The 180 seconds of a cron job run out, even between commit and publish.
Timeout(j) ==
    /\ j \in Crons /\ pc[j] # "idle" /\ faults < MaxFaults
    /\ faults' = faults + 1
    /\ Rollback(j) /\ Leave(j)
    /\ UNCHANGED <<now, db, busVars, runs>>

\* The process dies: its transaction is rolled back, its bus is lost.
Crash(j) ==
    /\ faults < MaxFaults
    /\ faults' = faults + 1
    /\ bus' = [bus EXCEPT ![j] = {}]
    /\ Rollback(j) /\ Leave(j)
    /\ UNCHANGED <<now, db, retained, runs>>

\* HindsightRetainHandler: an event without a tenant is skipped.
Deliver(j) ==
    \E e \in bus[j] :
        /\ bus' = [bus EXCEPT ![j] = @ \ {e}]
        /\ retained' = IF e.tenanted THEN retained \cup {<<e.symbol, e.version>>} ELSE retained
        /\ UNCHANGED <<now, db, lock, txnVars, jobVars, runs, faults>>

-----------------------------------------------------------------------------
Step(j) ==
    \/ Refused(j) \/ Select(j)
    \/ Register(j) \/ RegisterBlocked(j)
    \/ Price(j) \/ Answer(j) \/ CallFails(j)
    \/ ReadVersion(j) \/ Collide(j) \/ Insert(j) \/ InsertBlocked(j)
    \/ Commit(j) \/ Flush(j) \/ Abandon(j)

Next ==
    \/ Tick
    \/ \E j \in Jobs :
          Start(j) \/ Step(j) \/ Fact(j) \/ Timeout(j) \/ Crash(j) \/ Deliver(j)

Spec == Init /\ [][Next]_vars

\* A database call waits 30 seconds at most, the sources and the model answer
\* or time out, so that a job does not stop; the bus worker of a daemon runs.
Fairness == \A j \in Jobs : WF_vars(Step(j)) /\ WF_vars(Deliver(j))

FairSpec == Spec /\ Fairness

-----------------------------------------------------------------------------
(* Properties.                                                             *)

Events == [symbol : Symbols, version : Nat, tenanted : BOOLEAN]

\* Type invariant.
TypeOK ==
    /\ now \in Nat
    /\ db \in Databases
    /\ lock \in Jobs \cup {Nobody}
    /\ pc \in [Jobs -> {"idle", "symbol", "register", "ingest", "calling", "version",
                        "insert", "flush"}]
    /\ todo \in [Jobs -> Seq(Symbols)]
    /\ version \in [Jobs -> Nat]
    /\ open \in [Jobs -> BOOLEAN]
    /\ snap \in [Jobs -> Databases \cup {Unread}]
    /\ work \in [Jobs -> Databases]
    /\ dead \in [Jobs -> BOOLEAN]
    /\ outbox \in [Jobs -> SUBSET Events]
    /\ bus \in [Jobs -> SUBSET Events]
    /\ retained \subseteq Symbols \X Nat
    /\ runs \in [Jobs -> Nat]
    /\ faults \in Nat

\* The versions of a symbol's committed briefs are 1, 2, 3 ... without a gap
\* or a repeat, created in that order, whoever raced to write them.
BriefsAreLinear ==
    /\ \A s \in Symbols :
          Versions(db.briefs, s) = 1..Newest(Versions(db.briefs, s))
    /\ \A a, b \in db.briefs :
          a.symbol = b.symbol =>
             /\ a.version = b.version => a = b
             /\ a.version < b.version => a.at <= b.at

\* Every event on a bus names a committed brief: a subscriber that loads it
\* never misses it, whatever timed out or was rolled back.
AnnouncedIsCommitted ==
    \A j \in Jobs : \A e \in bus[j] : e.version \in Versions(db.briefs, e.symbol)

\* The write lock is always given back, although jobs wait for a language
\* model while they hold it, time out and die.
WriterMovesOn == (lock # Nobody) ~> (lock = Nobody)

\* "One bad symbol never aborts the batch" (orchestration/service.py:677):
\* no symbol is tried in a session that an earlier symbol left unusable.
BatchGoesOn == \A j \in Jobs : dead[j] /\ pc[j] = "symbol" => todo[j] = <<>>

\* latest_brief orders by created_at; "the unique constraint on [version]
\* guarantees the ordering is well-defined" (research/repository.py:312-315).
LatestIsDefined ==
    \A a, b \in db.briefs : a.symbol = b.symbol /\ a.at = b.at => a = b

\* A brief a daemon announces is retained (cli/trading.py:866-867).
BriefIsRetained ==
    \A j \in Crons : \A s \in Symbols : \A v \in 1..MaxRuns :
        (Synthesized(s, v) \in bus[j]) ~> (<<s, v>> \in retained)

\* The lock is not held over a language model call (persistence/session.py:
\* 30 seconds are "well above any reasonable lock-hold time").
NoCallUnderLock == \A j \in Jobs : pc[j] = "calling" => lock # j

=============================================================================

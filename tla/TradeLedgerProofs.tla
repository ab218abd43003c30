--------------------------- MODULE TradeLedgerProofs ---------------------------
(***************************************************************************)
(* Proofs about TradeLedger for every set of trades, modes and faults:     *)
(*                                                                         *)
(*   TypeCorrect    Spec => []TypeOK                                       *)
(*   LedgerIsReal   Spec => []FillsAreExecutions                           *)
(*   ExitsBounded   Spec => []ExitsAreAccounted                            *)
(*   Refinement     Spec => ImplementsContract                             *)
(*   ClosedIsSold   OneDaemon /\ OneTradeEach /\ Spec => []ClosedIsNotHeld *)
(*   DoubleSellBounded  Spec => []SellsAreBounded                          *)
(***************************************************************************)
EXTENDS TradeLedger, TLAPS

(* The inductive invariant.                                                *)

\* What is recorded and what a reconciliation still has to record was
\* executed.
Accounted ==
    \A m \in Modes, t \in Trades, r \in Roles :
        fills[m][t][r] + found[m][t][r] <= done[m][t][r]

\* An entry that has not been committed has no rows, and no daemon is closing
\* its trade.
Unopened ==
    /\ \A t \in Trades : entering[t] # "over" => trade[t] = "none" /\ rows[t] = {}
    /\ \A m \in Modes : closing[m] # None => trade[closing[m]] # "none"

\* A daemon may have placed one exit more than it lost track of: the one it is
\* closing with, or the one for which the trade left "open" for good.
OneAhead(m, t) ==
    IF trade[t] \in {"closing", "closed"} \/ closing[m] = t THEN 1 ELSE 0

Counted ==
    \A m \in Modes, t \in Trades :
        sent[m][t]["exit"] <= lost[m][t] + OneAhead(m, t)

\* Orders are recorded with their trade or after it.
Listed == \A t \in Trades : rows[t] # {} => trade[t] # "none"

IInv == TypeOK /\ Accounted /\ Unopened /\ Listed /\ Counted

-----------------------------------------------------------------------------
(* Initially.                                                              *)

LEMMA InitInv == Init => IInv
<1> SUFFICES ASSUME Init PROVE IInv
  OBVIOUS
<1>1. TypeOK
  BY DEF Init, TypeOK, PerOrder, PerTrade
<1>2. Accounted
  BY DEF Init, Accounted, PerOrder
<1>3. Unopened
  BY DEF Init, Unopened
<1>4. Counted
  BY LedgerAssumption DEF Init, Counted, OneAhead, PerOrder, PerTrade, Roles, Exits
<1>5. Listed
  BY DEF Init, Listed
<1> QED
  BY <1>1, <1>2, <1>3, <1>4, <1>5 DEF IInv

-----------------------------------------------------------------------------
(* Type correctness: one step per action, grouped as in the module.        *)

LEMMA EntryType ==
    ASSUME TypeOK, NEW t \in Trades,
           \/ \E reply \in Answers : Enter(t, reply)
           \/ EnterCommit(t) \/ EnterFails(t)
    PROVE  TypeOK'
<1> USE DEF TypeOK, ledgerVars, brokerVars, closeVars, reconVars
<1>1. ASSUME NEW reply \in Answers, Enter(t, reply) PROVE TypeOK'
  <2>0. "entry" \in Roles /\ ModeOf[t] \in Modes
    BY LedgerAssumption DEF Roles
  <2>1. sent' \in [Modes -> [Trades -> [Roles -> Nat]]]
    <3>1. [sent EXCEPT ![ModeOf[t]][t]["entry"] = 1]
             \in [Modes -> [Trades -> [Roles -> Nat]]]
      BY <2>0
    <3> QED
      BY <1>1, <3>1 DEF Enter
  <2>2. entering' \in [Trades -> Answers \cup {"new", "over"}]
    BY <1>1 DEF Enter
  <2> QED
    BY <1>1, <2>1, <2>2 DEF Enter
<1>2. CASE EnterCommit(t)
  <2>1. EntryRows(t) \subseteq Roles
    BY DEF EntryRows, Roles, Exits, Legs
  <2> QED
    BY <1>2, <2>1 DEF EnterCommit
<1>3. CASE EnterFails(t)
  BY <1>3 DEF EnterFails
<1> QED
  BY <1>1, <1>2, <1>3

LEMMA ExitType ==
    ASSUME TypeOK, NEW m \in Modes,
           \/ \E t \in Trades : AskExit(m, t) \/ Exit(m, t) \/ ExitRefused(m, t)
           \/ ExitTimesOut(m) \/ ExitCommit(m) \/ ExitFails(m)
    PROVE  TypeOK'
<1> USE DEF TypeOK, ledgerVars, brokerVars, reconVars
<1>1. ASSUME NEW t \in Trades, AskExit(m, t) PROVE TypeOK'
  BY <1>1 DEF AskExit
<1>2. ASSUME NEW t \in Trades, Exit(m, t) PROVE TypeOK'
  <2>0. "exit" \in Roles
    BY DEF Roles, Exits
  <2>1. sent' \in [Modes -> [Trades -> [Roles -> Nat]]]
    BY <1>2, <2>0 DEF Exit
  <2>2. asked' \in [Modes -> [Trades -> Nat]]
    BY <1>2 DEF Exit
  <2> QED
    BY <1>2, <2>1, <2>2 DEF Exit
<1>3. ASSUME NEW t \in Trades, ExitRefused(m, t) PROVE TypeOK'
  BY <1>3 DEF ExitRefused
<1>4. CASE ExitTimesOut(m)
  BY <1>4 DEF ExitTimesOut
<1>5. CASE ExitCommit(m)
  <2>1. "exit" \in Roles
    BY DEF Roles, Exits
  <2> QED
    BY <1>5, <2>1 DEF ExitCommit
<1>6. CASE ExitFails(m)
  BY <1>6 DEF ExitFails
<1> QED
  BY <1>1, <1>2, <1>3, <1>4, <1>5, <1>6

LEMMA ReconType ==
    ASSUME TypeOK, Accounted, NEW m \in Modes,
           \/ \E missing \in SUBSET Trades : ReconStart(m, missing)
           \/ \E t \in Trades, r \in Roles : ReconFill(m, t, r) \/ ReconMissing(m, t, r)
           \/ ReconFails(m) \/ ReconPositions(m) \/ ReconEnd(m)
    PROVE  TypeOK'
<1> USE DEF TypeOK, ledgerVars, brokerVars, closeVars
<1>1. ASSUME NEW missing \in SUBSET Trades, ReconStart(m, missing) PROVE TypeOK'
  <2>1. \A t \in Trades, r \in Roles : New(m, t, r) \in Nat
    BY DEF New, Accounted
  <2>2. found' \in [Modes -> [Trades -> [Roles -> Nat]]]
    BY <1>1, <2>1 DEF ReconStart
  <2> QED
    BY <1>1, <2>2 DEF ReconStart
<1>2. ASSUME NEW t \in Trades, NEW r \in Roles, ReconFill(m, t, r) PROVE TypeOK'
  <2>1. found' \in [Modes -> [Trades -> [Roles -> Nat]]]
    BY <1>2 DEF ReconFill
  <2>2. fills' \in [Modes -> [Trades -> [Roles -> Nat]]]
    BY <1>2 DEF ReconFill
  <2>3. trade' \in [Trades -> {"none", "open", "closing", "closed"}]
    BY <1>2 DEF ReconFill
  <2> QED
    BY <1>2, <2>1, <2>2, <2>3 DEF ReconFill
<1>3. ASSUME NEW t \in Trades, NEW r \in Roles, ReconMissing(m, t, r) PROVE TypeOK'
  BY <1>3 DEF ReconMissing
<1>4. CASE ReconFails(m)
  BY <1>4 DEF ReconFails, Forget, Unhandled, PerOrder
<1>5. CASE ReconPositions(m)
  BY <1>5 DEF ReconPositions
<1>6. CASE ReconEnd(m)
  BY <1>6 DEF ReconEnd
<1> QED
  BY <1>1, <1>2, <1>3, <1>4, <1>5, <1>6

LEMMA WorldType ==
    ASSUME TypeOK, NEW m \in Modes,
           \/ \E t \in Trades, r \in Roles : Execute(m, t, r)
           \/ Crash(m)
    PROVE  TypeOK'
<1> USE DEF TypeOK, ledgerVars, brokerVars, closeVars, reconVars
<1>1. ASSUME NEW t \in Trades, NEW r \in Roles, Execute(m, t, r) PROVE TypeOK'
  BY <1>1 DEF Execute
<1>2. CASE Crash(m)
  <2>1. found' \in [Modes -> [Trades -> [Roles -> Nat]]] /\ behind' \in [Modes -> SUBSET Trades]
    BY <1>2 DEF Crash, Forget, Unhandled, PerOrder
  <2>2. lost' \in [Modes -> [Trades -> Nat]]
    BY <1>2 DEF Crash
  <2>3. asked' \in [Modes -> [Trades -> Nat]]
    BY <1>2 DEF Crash, PerTrade
  <2> QED
    BY <1>2, <2>1, <2>2, <2>3 DEF Crash
<1> QED
  BY <1>1, <1>2

LEMMA TypeStep ==
    ASSUME TypeOK, Accounted, [Next]_vars
    PROVE  TypeOK'
<1>1. CASE \E t \in Trades : \/ \E reply \in Answers : Enter(t, reply)
                            \/ EnterCommit(t) \/ EnterFails(t)
  BY <1>1, EntryType
<1>2. CASE \E m \in Modes :
              \/ \E t \in Trades : AskExit(m, t) \/ Exit(m, t) \/ ExitRefused(m, t)
              \/ ExitTimesOut(m) \/ ExitCommit(m) \/ ExitFails(m)
  BY <1>2, ExitType
<1>3. CASE \E m \in Modes :
              \/ \E missing \in SUBSET Trades : ReconStart(m, missing)
              \/ \E t \in Trades, r \in Roles :
                    ReconFill(m, t, r) \/ ReconMissing(m, t, r)
              \/ ReconFails(m) \/ ReconPositions(m) \/ ReconEnd(m)
  BY <1>3, ReconType
<1>4. CASE \E m \in Modes : \/ \E t \in Trades, r \in Roles : Execute(m, t, r)
                           \/ Crash(m)
  BY <1>4, WorldType
<1>5. CASE UNCHANGED vars
  BY <1>5 DEF vars, ledgerVars, brokerVars, closeVars, reconVars, TypeOK
<1> QED
  BY <1>1, <1>2, <1>3, <1>4, <1>5 DEF Next

-----------------------------------------------------------------------------
(* Only executions are recorded.                                           *)

\* The actions that neither record an execution, nor find one, nor make one.
LEMMA AccountedFrame ==
    ASSUME Accounted, UNCHANGED <<fills, found, done>>
    PROVE  Accounted'
  BY DEF Accounted

LEMMA ForgetAccounted ==
    ASSUME TypeOK, Accounted, NEW m \in Modes, Forget(m), UNCHANGED <<fills, done>>
    PROVE  Accounted'
<1>1. ASSUME NEW n \in Modes, NEW t \in Trades, NEW r \in Roles
      PROVE  found'[n][t][r] \in Nat /\ found'[n][t][r] <= found[n][t][r]
  <2>1. found[n][t][r] \in Nat
    BY DEF TypeOK
  <2>2. CASE n = m
    <3>1. found'[n][t][r] = 0
      BY <2>2 DEF Forget, PerOrder, TypeOK
    <3> QED
      BY <2>1, <3>1
  <2>3. CASE n # m
    BY <2>1, <2>3 DEF Forget, TypeOK
  <2> QED
    BY <2>2, <2>3
<1>2. ASSUME NEW n \in Modes, NEW t \in Trades, NEW r \in Roles
      PROVE  fills[n][t][r] \in Nat /\ found[n][t][r] \in Nat /\ done[n][t][r] \in Nat
  BY DEF TypeOK
<1> QED
  BY <1>1, <1>2 DEF Accounted

LEMMA AccountedStep ==
    ASSUME TypeOK, Accounted, [Next]_vars
    PROVE  Accounted'
<1> USE DEF ledgerVars, brokerVars, closeVars, reconVars
<1>1. ASSUME NEW t \in Trades, \/ \E reply \in Answers : Enter(t, reply)
                             \/ EnterCommit(t) \/ EnterFails(t)
      PROVE  Accounted'
  BY <1>1, AccountedFrame DEF Enter, EnterCommit, EnterFails
<1>2. ASSUME NEW m \in Modes,
             \/ \E t \in Trades : AskExit(m, t) \/ Exit(m, t) \/ ExitRefused(m, t)
             \/ ExitTimesOut(m) \/ ExitCommit(m) \/ ExitFails(m)
      PROVE  Accounted'
  BY <1>2, AccountedFrame
     DEF AskExit, Exit, ExitRefused, ExitTimesOut, ExitCommit, ExitFails
<1>3. ASSUME NEW m \in Modes, NEW missing \in SUBSET Trades, ReconStart(m, missing)
      PROVE  Accounted'
  <2> SUFFICES ASSUME NEW n \in Modes, NEW t \in Trades, NEW r \in Roles
               PROVE  fills[n][t][r] + found'[n][t][r] <= done[n][t][r]
    BY <1>3 DEF ReconStart, Accounted
  <2>1. /\ fills[n][t][r] \in Nat /\ found[n][t][r] \in Nat /\ done[n][t][r] \in Nat
        /\ fills[n][t][r] + found[n][t][r] <= done[n][t][r]
    BY DEF TypeOK, Accounted
  <2>2. found'[n][t][r] \in {0, New(n, t, r), found[n][t][r]}
    BY <1>3 DEF ReconStart, TypeOK
  <2> QED
    BY <2>1, <2>2 DEF New
<1>4. ASSUME NEW m \in Modes, NEW t \in Trades, NEW r \in Roles, ReconFill(m, t, r)
      PROVE  Accounted'
  <2> SUFFICES ASSUME NEW n \in Modes, NEW u \in Trades, NEW q \in Roles
               PROVE  fills'[n][u][q] + found'[n][u][q] <= done[n][u][q]
    BY <1>4 DEF ReconFill, Accounted
  <2>1. /\ fills[n][u][q] \in Nat /\ found[n][u][q] \in Nat /\ done[n][u][q] \in Nat
        /\ fills[n][u][q] + found[n][u][q] <= done[n][u][q]
    BY DEF TypeOK, Accounted
  <2>2. CASE n = m /\ u = t /\ q = r
    BY <1>4, <2>1, <2>2 DEF ReconFill, TypeOK
  <2>3. CASE ~(n = m /\ u = t /\ q = r)
    <3>1. fills'[n][u][q] = fills[n][u][q] /\ found'[n][u][q] = found[n][u][q]
      BY <1>4, <2>3 DEF ReconFill, TypeOK
    <3> QED
      BY <2>1, <3>1
  <2> QED
    BY <2>2, <2>3
<1>5. ASSUME NEW m \in Modes, NEW t \in Trades, NEW r \in Roles, ReconMissing(m, t, r)
      PROVE  Accounted'
  <2> SUFFICES ASSUME NEW n \in Modes, NEW u \in Trades, NEW q \in Roles
               PROVE  fills[n][u][q] + found'[n][u][q] <= done[n][u][q]
    BY <1>5 DEF ReconMissing, Accounted
  <2>1. /\ fills[n][u][q] \in Nat /\ found[n][u][q] \in Nat /\ done[n][u][q] \in Nat
        /\ fills[n][u][q] + found[n][u][q] <= done[n][u][q]
    BY DEF TypeOK, Accounted
  <2>2. found'[n][u][q] \in {0, found[n][u][q]}
    BY <1>5 DEF ReconMissing, TypeOK
  <2> QED
    BY <2>1, <2>2
<1>6. ASSUME NEW m \in Modes, ReconPositions(m) \/ ReconEnd(m) PROVE Accounted'
  BY <1>6, AccountedFrame DEF ReconPositions, ReconEnd
<1>7. ASSUME NEW m \in Modes, ReconFails(m) \/ Crash(m) PROVE Accounted'
  BY <1>7, ForgetAccounted DEF ReconFails, Crash
<1>8. ASSUME NEW m \in Modes, NEW t \in Trades, NEW r \in Roles, Execute(m, t, r)
      PROVE  Accounted'
  <2> SUFFICES ASSUME NEW n \in Modes, NEW u \in Trades, NEW q \in Roles
               PROVE  fills[n][u][q] + found[n][u][q] <= done'[n][u][q]
    BY <1>8 DEF Execute, Accounted
  <2>1. /\ fills[n][u][q] \in Nat /\ found[n][u][q] \in Nat /\ done[n][u][q] \in Nat
        /\ fills[n][u][q] + found[n][u][q] <= done[n][u][q]
    BY DEF TypeOK, Accounted
  <2>2. done'[n][u][q] \in {done[n][u][q], done[n][u][q] + 1}
    BY <1>8 DEF Execute, TypeOK
  <2> QED
    BY <2>1, <2>2
<1>9. CASE UNCHANGED vars
  BY <1>9, AccountedFrame DEF vars
<1> QED
  BY <1>1, <1>2, <1>3, <1>4, <1>5, <1>6, <1>7, <1>8, <1>9 DEF Next

-----------------------------------------------------------------------------
(* An entry has no rows before its commit.                                 *)

LEMMA UnopenedStep ==
    ASSUME TypeOK, Unopened, [Next]_vars
    PROVE  Unopened'
<1> USE DEF ledgerVars, brokerVars, closeVars, reconVars
<1>1. ASSUME NEW t \in Trades, \E reply \in Answers : Enter(t, reply)
      PROVE  Unopened'
  BY <1>1 DEF Enter, Unopened, TypeOK
<1>2. ASSUME NEW t \in Trades, EnterCommit(t) PROVE Unopened'
  <2>1. ASSUME NEW m \in Modes, closing[m] # None PROVE trade'[closing[m]] # "none"
    BY <1>2, <2>1 DEF EnterCommit, Unopened, TypeOK
  <2>2. \A u \in Trades : entering'[u] # "over" => trade'[u] = "none" /\ rows'[u] = {}
    BY <1>2 DEF EnterCommit, Unopened, TypeOK
  <2> QED
    BY <1>2, <2>1, <2>2 DEF EnterCommit, Unopened
<1>3. ASSUME NEW t \in Trades, EnterFails(t) PROVE Unopened'
  BY <1>3 DEF EnterFails, Unopened, TypeOK
<1>4. ASSUME NEW m \in Modes, NEW t \in Trades, AskExit(m, t) \/ ExitRefused(m, t)
      PROVE  Unopened'
  BY <1>4 DEF AskExit, ExitRefused, Unopened
<1>5. ASSUME NEW m \in Modes, NEW t \in Trades, Exit(m, t) PROVE Unopened'
  BY <1>5 DEF Exit, Unopened, TypeOK
<1>6. ASSUME NEW m \in Modes, ExitTimesOut(m) \/ ExitFails(m) PROVE Unopened'
  <2>1. closing' = [closing EXCEPT ![m] = None] /\ UNCHANGED <<trade, rows, entering>>
    BY <1>6 DEF ExitTimesOut, ExitFails
  <2>2. \A n \in Modes : closing'[n] \in {None, closing[n]}
    BY <2>1 DEF TypeOK
  <2> QED
    BY <2>1, <2>2 DEF Unopened
<1>7. ASSUME NEW m \in Modes, ExitCommit(m) PROVE Unopened'
  BY <1>7 DEF ExitCommit, Unopened, TypeOK
<1>8. ASSUME NEW m \in Modes, NEW t \in Trades, NEW r \in Roles, ReconFill(m, t, r)
      PROVE  Unopened'
  BY <1>8 DEF ReconFill, Unopened, TypeOK
<1>9. ASSUME NEW m \in Modes, ReconEnd(m) PROVE Unopened'
  BY <1>9 DEF ReconEnd, Orphan, Live, Unopened, TypeOK
<1>10. ASSUME NEW m \in Modes, Crash(m) PROVE Unopened'
  BY <1>10 DEF Crash, Unopened, TypeOK
<1>11. ASSUME UNCHANGED <<trade, rows, entering, closing>> PROVE Unopened'
  BY <1>11 DEF Unopened
<1>12. ASSUME NEW m \in Modes,
              \/ \E missing \in SUBSET Trades : ReconStart(m, missing)
              \/ \E t \in Trades, r \in Roles : Execute(m, t, r) \/ ReconMissing(m, t, r)
              \/ ReconFails(m) \/ ReconPositions(m)
       PROVE  Unopened'
  BY <1>11, <1>12 DEF ReconStart, Execute, ReconMissing, ReconFails, ReconPositions
<1>13. CASE UNCHANGED vars
  BY <1>11, <1>13 DEF vars
<1> QED
  BY <1>1, <1>2, <1>3, <1>4, <1>5, <1>6, <1>7, <1>8, <1>9, <1>10, <1>12, <1>13 DEF Next

LEMMA ListedStep ==
    ASSUME TypeOK, Listed, [Next]_vars
    PROVE  Listed'
<1> USE DEF ledgerVars, brokerVars
<1>1. ASSUME NEW t \in Trades, EnterCommit(t) PROVE Listed'
  BY <1>1 DEF EnterCommit, Listed, TypeOK
<1>2. ASSUME NEW m \in Modes, ExitCommit(m) PROVE Listed'
  BY <1>2 DEF ExitCommit, Listed, TypeOK
<1>3. ASSUME NEW m \in Modes, NEW t \in Trades, NEW r \in Roles, ReconFill(m, t, r)
      PROVE  Listed'
  BY <1>3 DEF ReconFill, Listed, TypeOK
<1>4. ASSUME NEW m \in Modes, ReconEnd(m) PROVE Listed'
  BY <1>4 DEF ReconEnd, Listed, TypeOK
<1>5. ASSUME UNCHANGED <<trade, rows>> PROVE Listed'
  BY <1>5 DEF Listed
<1>6. CASE \E t \in Trades : (\E reply \in Answers : Enter(t, reply)) \/ EnterFails(t)
  BY <1>5, <1>6 DEF Enter, EnterFails
<1>7. CASE \E m \in Modes :
              \/ \E t \in Trades : AskExit(m, t) \/ Exit(m, t) \/ ExitRefused(m, t)
              \/ ExitTimesOut(m) \/ ExitFails(m)
  BY <1>5, <1>7 DEF AskExit, Exit, ExitRefused, ExitTimesOut, ExitFails
<1>8. CASE \E m \in Modes :
              \/ \E missing \in SUBSET Trades : ReconStart(m, missing)
              \/ \E t \in Trades, r \in Roles : Execute(m, t, r) \/ ReconMissing(m, t, r)
              \/ ReconFails(m) \/ ReconPositions(m) \/ Crash(m)
  BY <1>5, <1>8 DEF ReconStart, Execute, ReconMissing, ReconFails, ReconPositions, Crash
<1>9. CASE UNCHANGED vars
  BY <1>5, <1>9 DEF vars
<1> QED
  BY <1>1, <1>2, <1>3, <1>4, <1>6, <1>7, <1>8, <1>9 DEF Next

-----------------------------------------------------------------------------
(* Exits are counted.                                                      *)

\* The actions that neither place an exit nor lose one, and end no trade's
\* allowance.
LEMMA CountedFrame ==
    ASSUME TypeOK, Counted, UNCHANGED lost,
           \A m \in Modes, t \in Trades :
              /\ sent'[m][t]["exit"] = sent[m][t]["exit"]
              /\ closing[m] = t => closing'[m] = t \/ trade'[t] \in {"closing", "closed"}
              /\ trade[t] \in {"closing", "closed"} => trade'[t] \in {"closing", "closed"}
    PROVE  Counted'
<1> SUFFICES ASSUME NEW m \in Modes, NEW t \in Trades
             PROVE  sent'[m][t]["exit"] <= lost[m][t] + OneAhead(m, t)'
  BY DEF Counted
<1>1. sent[m][t]["exit"] \in Nat /\ lost[m][t] \in Nat
  BY DEF TypeOK, Roles, Exits
<1>2. sent[m][t]["exit"] <= lost[m][t] + OneAhead(m, t)
  BY DEF Counted
<1> QED
  BY <1>1, <1>2 DEF OneAhead

\* A daemon that stops closing its trade without recording the exit loses it.
LEMMA CountedLost ==
    ASSUME TypeOK, Counted, UNCHANGED <<trade, sent>>, NEW m \in Modes,
           closing' = [closing EXCEPT ![m] = None],
           lost' = IF closing[m] = None THEN lost
                   ELSE [lost EXCEPT ![m][closing[m]] = @ + 1]
    PROVE  Counted'
<1> SUFFICES ASSUME NEW n \in Modes, NEW t \in Trades
             PROVE  sent[n][t]["exit"] <= lost'[n][t] + OneAhead(n, t)'
  BY DEF Counted
<1>1. /\ sent[n][t]["exit"] \in Nat /\ lost[n][t] \in Nat
      /\ sent[n][t]["exit"] <= lost[n][t] + OneAhead(n, t)
  BY DEF TypeOK, Roles, Exits, Counted
<1>2. CASE n = m /\ closing[m] = t
  <2>1. lost'[n][t] = lost[n][t] + 1
    BY <1>2, LedgerAssumption DEF TypeOK
  <2> QED
    BY <1>1, <2>1 DEF OneAhead
<1>3. CASE ~(n = m /\ closing[m] = t)
  <2>1. lost'[n][t] = lost[n][t]
    BY <1>3 DEF TypeOK
  <2>2. OneAhead(n, t)' = OneAhead(n, t)
    BY <1>3, LedgerAssumption DEF OneAhead, TypeOK
  <2> QED
    BY <1>1, <2>1, <2>2
<1> QED
  BY <1>2, <1>3

LEMMA CountedStep ==
    ASSUME TypeOK, Unopened, Counted, [Next]_vars
    PROVE  Counted'
<1> USE DEF ledgerVars, brokerVars, closeVars, reconVars
<1>1. ASSUME NEW t \in Trades, \E reply \in Answers : Enter(t, reply)
      PROVE  Counted'
  <2>1. \A m \in Modes, u \in Trades : sent'[m][u]["exit"] = sent[m][u]["exit"]
    <3> DEFINE placed == [sent EXCEPT ![ModeOf[t]][t]["entry"] = 1]
    <3>1. "exit" \in Roles /\ sent \in [Modes -> [Trades -> [Roles -> Nat]]]
      BY DEF TypeOK, Roles, Exits
    <3>2. \A m \in Modes, u \in Trades : placed[m][u]["exit"] = sent[m][u]["exit"]
      BY <3>1
    <3>3. sent' \in {sent, placed}
      BY <1>1 DEF Enter
    <3> QED
      BY <3>2, <3>3
  <2> QED
    BY <1>1, <2>1, CountedFrame DEF Enter
<1>2. ASSUME NEW t \in Trades, EnterCommit(t) PROVE Counted'
  <2>1. trade[t] = "none"
    BY <1>2 DEF EnterCommit, Answers, Unopened
  <2>2. \A u \in Trades : trade[u] \in {"closing", "closed"} =>
                             trade'[u] \in {"closing", "closed"}
    BY <1>2, <2>1 DEF EnterCommit, TypeOK
  <2> QED
    BY <1>2, <2>2, CountedFrame DEF EnterCommit
<1>3. ASSUME UNCHANGED <<trade, sent, lost, closing>> PROVE Counted'
  BY <1>3, CountedFrame
<1>4. ASSUME NEW m \in Modes, NEW t \in Trades, Exit(m, t) PROVE Counted'
  <2> SUFFICES ASSUME NEW n \in Modes, NEW u \in Trades
               PROVE  sent'[n][u]["exit"] <= lost[n][u] + OneAhead(n, u)'
    BY <1>4 DEF Exit, Counted
  <2>1. /\ sent[n][u]["exit"] \in Nat /\ lost[n][u] \in Nat
        /\ sent[n][u]["exit"] <= lost[n][u] + OneAhead(n, u)
    BY DEF TypeOK, Roles, Exits, Counted
  <2>2. CASE n = m /\ u = t
    <3>1. OneAhead(n, u) = 0 /\ OneAhead(n, u)' = 1
      BY <1>4, <2>2, LedgerAssumption DEF Exit, OneAhead, TypeOK
    <3>2. sent'[n][u]["exit"] \in {sent[n][u]["exit"], sent[n][u]["exit"] + 1}
      BY <1>4, <2>2 DEF Exit, TypeOK, Roles, Exits
    <3> QED
      BY <2>1, <3>1, <3>2
  <2>3. CASE ~(n = m /\ u = t)
    <3>1. OneAhead(n, u)' = OneAhead(n, u)
      BY <1>4, <2>3, LedgerAssumption DEF Exit, OneAhead, TypeOK
    <3>2. sent'[n][u]["exit"] = sent[n][u]["exit"]
      BY <1>4, <2>3 DEF Exit, TypeOK, Roles, Exits
    <3> QED
      BY <2>1, <3>1, <3>2
  <2> QED
    BY <2>2, <2>3
<1>5. ASSUME NEW m \in Modes, ExitTimesOut(m) \/ ExitFails(m) PROVE Counted'
  BY <1>5, CountedLost DEF ExitTimesOut, ExitFails
<1>6. ASSUME NEW m \in Modes, Crash(m) PROVE Counted'
  BY <1>6, CountedLost DEF Crash
<1>7. ASSUME NEW m \in Modes, ExitCommit(m) PROVE Counted'
  <2>1. \A n \in Modes, t \in Trades :
           /\ closing[n] = t => closing'[n] = t \/ trade'[t] \in {"closing", "closed"}
           /\ trade[t] \in {"closing", "closed"} => trade'[t] \in {"closing", "closed"}
    BY <1>7 DEF ExitCommit, TypeOK
  <2> QED
    BY <1>7, <2>1, CountedFrame DEF ExitCommit
<1>8. ASSUME NEW m \in Modes, NEW t \in Trades, NEW r \in Roles, ReconFill(m, t, r)
      PROVE  Counted'
  <2>1. \A u \in Trades : trade[u] \in {"closing", "closed"} =>
                             trade'[u] \in {"closing", "closed"}
    BY <1>8 DEF ReconFill, TypeOK
  <2> QED
    BY <1>8, <2>1, CountedFrame DEF ReconFill
<1>9. ASSUME NEW m \in Modes, ReconEnd(m) PROVE Counted'
  <2>1. \A u \in Trades : trade[u] \in {"closing", "closed"} =>
                             trade'[u] \in {"closing", "closed"}
    BY <1>9 DEF ReconEnd, TypeOK
  <2> QED
    BY <1>9, <2>1, CountedFrame DEF ReconEnd
<1>10. ASSUME NEW m \in Modes,
              \/ \E t \in Trades : AskExit(m, t) \/ ExitRefused(m, t)
              \/ \E missing \in SUBSET Trades : ReconStart(m, missing)
              \/ \E t \in Trades, r \in Roles : Execute(m, t, r) \/ ReconMissing(m, t, r)
              \/ ReconFails(m) \/ ReconPositions(m)
       PROVE  Counted'
  BY <1>3, <1>10
     DEF AskExit, ExitRefused, ReconStart, Execute, ReconMissing, ReconFails, ReconPositions
<1>11. CASE (\E t \in Trades : EnterFails(t)) \/ UNCHANGED vars
  BY <1>3, <1>11 DEF EnterFails, vars
<1> QED
  BY <1>1, <1>2, <1>4, <1>5, <1>6, <1>7, <1>8, <1>9, <1>10, <1>11 DEF Next

-----------------------------------------------------------------------------
(* Theorems.                                                               *)

LEMMA Invariance == Spec => []IInv
<1>1. IInv /\ [Next]_vars => IInv'
  BY TypeStep, AccountedStep, UnopenedStep, ListedStep, CountedStep DEF IInv
<1> QED
  BY InitInv, <1>1, PTL DEF Spec

\* Type correctness of the ledger and of the two ends of the broker calls.
THEOREM TypeCorrect == Spec => []TypeOK
<1>1. IInv => TypeOK
  BY DEF IInv
<1> QED
  BY Invariance, <1>1, PTL

\* No reconciliation, restarted or cut short, records an execution twice or
\* one that the account did not make (broker_fill_id, _reconcile_one_fill).
THEOREM LedgerIsReal == Spec => []FillsAreExecutions
<1>1. IInv => FillsAreExecutions
  BY DEF IInv, TypeOK, Accounted, FillsAreExecutions
<1> QED
  BY Invariance, <1>1, PTL

\* A daemon sends a second exit of a trade to its broker only after it lost
\* track of an earlier one (close_trade, close_trade_handler).
THEOREM ExitsBounded == Spec => []ExitsAreAccounted
<1>1. ASSUME IInv, NEW m \in Modes, NEW t \in Trades
      PROVE  sent[m][t]["exit"] <= lost[m][t] + 1
  <2>1. /\ sent[m][t]["exit"] \in Nat /\ lost[m][t] \in Nat
        /\ sent[m][t]["exit"] <= lost[m][t] + OneAhead(m, t)
    BY <1>1 DEF IInv, TypeOK, Roles, Exits, Counted
  <2> QED
    BY <2>1 DEF OneAhead
<1>2. IInv => ExitsAreAccounted
  BY <1>1 DEF ExitsAreAccounted
<1> QED
  BY Invariance, <1>2, PTL

-----------------------------------------------------------------------------
(* The refinement of LedgerContract.                                       *)

LEMMA SameRoles == Contract!Roles = Roles
  BY DEF Contract!Roles, Roles, Exits, Legs

LEMMA InitRefines == Init => Contract!Init
  BY SameRoles DEF Init, Contract!Init, Contract!Nothing, PerOrder

\* What the contract does not see.
LEMMA Stutters == UNCHANGED <<ledgerVars, done>> => UNCHANGED Contract!vars
  BY DEF ledgerVars, Contract!vars

LEMMA OpenRefines ==
    ASSUME IInv, NEW t \in Trades, EnterCommit(t)
    PROVE  Contract!Next
<1>1. entering[t] # "over" /\ UNCHANGED <<fills, done>>
  BY DEF EnterCommit, Answers, brokerVars
<1>2. trade[t] = "none" /\ rows[t] = {}
  BY <1>1 DEF IInv, Unopened
<1>3. PICK legs \in SUBSET Legs : EntryRows(t) = {"entry"} \cup legs
  <2>1. EntryRows(t) = {"entry"} \cup Legs \/ EntryRows(t) = {"entry"} \cup {}
    BY DEF EntryRows
  <2> QED
    BY <2>1
<1>4. Contract!Open(t, legs)
  BY <1>1, <1>2, <1>3 DEF EnterCommit, Contract!Open
<1>5. legs \in SUBSET (Exits \ {"exit"})
  BY <1>3 DEF Exits, Legs
<1> QED
  BY <1>4, <1>5 DEF Contract!Next

LEMMA OrderExitRefines ==
    ASSUME IInv, NEW m \in Modes, ExitCommit(m)
    PROVE  Contract!Next
<1>1. closing[m] \in Trades /\ closing[m] # None
  BY DEF ExitCommit, IInv, TypeOK
<1>2. trade[closing[m]] # "none"
  BY <1>1 DEF IInv, Unopened
<1>3. UNCHANGED <<fills, done>> /\ "exit" \notin rows[closing[m]]
  BY DEF ExitCommit, brokerVars
<1>4. /\ trade' = [trade EXCEPT ![closing[m]] = "closing"]
      /\ rows' = [rows EXCEPT ![closing[m]] = @ \cup {"exit"}]
  BY DEF ExitCommit
<1>5. Contract!OrderExit(closing[m])
  BY <1>2, <1>3, <1>4 DEF Contract!OrderExit
<1> QED
  BY <1>1, <1>5 DEF Contract!Next

LEMMA BookRefines ==
    ASSUME IInv, NEW m \in Modes, NEW t \in Trades, NEW r \in Roles, ReconFill(m, t, r)
    PROVE  Contract!Next
<1>1. found[m][t][r] > 0 /\ r \in rows[t] /\ UNCHANGED <<rows, done>>
  BY DEF ReconFill, brokerVars
<1>2. fills[m][t][r] < done[m][t][r]
  <2>1. fills[m][t][r] \in Nat /\ found[m][t][r] \in Nat /\ done[m][t][r] \in Nat
    BY DEF IInv, TypeOK
  <2>2. fills[m][t][r] + found[m][t][r] <= done[m][t][r]
    BY DEF IInv, Accounted
  <2> QED
    BY <1>1, <2>1, <2>2
<1>3. trade[t] # "none"
  BY <1>1 DEF IInv, Listed
<1>4. Contract!Total(t, r) = Recorded(t, r)
  BY DEF Contract!Total, Recorded, SumFunction, Contract!SumFunction,
         SumFunctionOnSet, Contract!SumFunctionOnSet,
         FoldFunctionOnSet, Contract!FoldFunctionOnSet,
         MapThenFoldSet, Contract!MapThenFoldSet
<1>5. /\ fills' = [fills EXCEPT ![m][t][r] = @ + 1]
      /\ trade' = IF r \in Exits /\ Recorded(t, r) + 1 >= Lots
                  THEN [trade EXCEPT ![t] = "closed"] ELSE trade
  BY DEF ReconFill
<1>6. Contract!Book(m, t, r)
  BY <1>1, <1>2, <1>3, <1>4, <1>5 DEF Contract!Book
<1> QED
  BY <1>6, SameRoles DEF Contract!Next

LEMMA SettleRefines ==
    ASSUME IInv, NEW m \in Modes, ReconEnd(m)
    PROVE  Contract!Next
<1> DEFINE S == {t \in Trades : Orphan(m, t)}
<1>1. trade' = [t \in Trades |-> IF t \in S THEN "closed" ELSE trade[t]]
  BY DEF ReconEnd
<1>2. \A t \in S : /\ trade[t] \in {"open", "closing"}
                   /\ \E a \in Modes, r \in Contract!Roles : fills[a][t][r] > 0
  BY SameRoles DEF Orphan, Live, HasFills
<1>3. UNCHANGED <<rows, fills, done>>
  BY DEF ReconEnd, brokerVars
<1>4. Contract!Settle(S)
  BY <1>1, <1>2, <1>3 DEF Contract!Settle
<1>5. S \in SUBSET Trades
  OBVIOUS
<1> HIDE DEF S
<1> QED
  BY <1>4, <1>5 DEF Contract!Next

LEMMA ExecuteRefines ==
    ASSUME NEW m \in Modes, NEW t \in Trades, NEW r \in Roles, Execute(m, t, r)
    PROVE  Contract!Next
<1>1. Contract!Execute(m, t, r)
  BY DEF Execute, ledgerVars, Contract!Execute
<1> QED
  BY <1>1, SameRoles DEF Contract!Next

LEMMA StepRefines == IInv /\ [Next]_vars => [Contract!Next]_(Contract!vars)
<1> SUFFICES ASSUME IInv, [Next]_vars
             PROVE  Contract!Next \/ UNCHANGED Contract!vars
  OBVIOUS
<1>1. CASE \E t \in Trades : (\E reply \in Answers : Enter(t, reply)) \/ EnterFails(t)
  BY <1>1, Stutters DEF Enter, EnterFails, brokerVars
<1>2. CASE \E t \in Trades : EnterCommit(t)
  BY <1>2, OpenRefines
<1>3. CASE \E m \in Modes :
              \/ \E t \in Trades : AskExit(m, t) \/ Exit(m, t) \/ ExitRefused(m, t)
              \/ ExitTimesOut(m) \/ ExitFails(m)
  BY <1>3, Stutters
     DEF AskExit, Exit, ExitRefused, ExitTimesOut, ExitFails, brokerVars
<1>4. CASE \E m \in Modes : ExitCommit(m)
  BY <1>4, OrderExitRefines
<1>5. CASE \E m \in Modes, t \in Trades, r \in Roles : Execute(m, t, r)
  BY <1>5, ExecuteRefines
<1>6. CASE \E m \in Modes, t \in Trades, r \in Roles : ReconFill(m, t, r)
  BY <1>6, BookRefines
<1>7. CASE \E m \in Modes : ReconEnd(m)
  BY <1>7, SettleRefines
<1>8. CASE \E m \in Modes :
              \/ \E missing \in SUBSET Trades : ReconStart(m, missing)
              \/ \E t \in Trades, r \in Roles : ReconMissing(m, t, r)
              \/ ReconFails(m) \/ ReconPositions(m) \/ Crash(m)
  BY <1>8, Stutters
     DEF ReconStart, ReconMissing, ReconFails, ReconPositions, Crash, brokerVars
<1>9. CASE UNCHANGED vars
  BY <1>9, Stutters DEF vars, brokerVars
<1> QED
  BY <1>1, <1>2, <1>3, <1>4, <1>5, <1>6, <1>7, <1>8, <1>9 DEF Next

\* The ledger keeps the promises of module LedgerContract, for any number of
\* daemons, trades, lots, close requests, crashes and failed reconciliations.
THEOREM Refinement == Spec => ImplementsContract
<1> QED
  BY Invariance, InitRefines, StepRefines, PTL
     DEF Spec, ImplementsContract, Contract!Spec

-----------------------------------------------------------------------------
(* Sums over small sets.  SumFunctionOnSet folds a function over a set in   *)
(* an order of its own choice; the order does not matter.                  *)

\* One step of its recursion.
SumStep(f, S, g) ==
    [s \in SUBSET S |-> IF s = {} THEN 0
                        ELSE f[CHOOSE x \in s : TRUE] + g[s \ {CHOOSE x \in s : TRUE}]]

SumOver(f, S) == (CHOOSE g : g = SumStep(f, S, g))[S]

LEMMA SumIsOver ==
    ASSUME NEW S, NEW f PROVE SumFunctionOnSet(f, S) = SumOver(f, S)
  BY DEF SumFunctionOnSet, FoldFunctionOnSet, MapThenFoldSet, SumOver, SumStep

LEMMA SumOfOne ==
    ASSUME NEW a, NEW f, f[a] \in Int
    PROVE  SumFunctionOnSet(f, {a}) = f[a]
<1> DEFINE sum == CHOOSE g : g = SumStep(f, {a}, g)
           total == [s \in SUBSET {a} |-> IF a \in s THEN f[a] ELSE 0]
<1>1. \A s \in SUBSET {a} : s # {} => s = {a} /\ (CHOOSE x \in s : TRUE) = a
  OBVIOUS
<1>2. total = SumStep(f, {a}, total)
  <2>1. ASSUME NEW s \in SUBSET {a} PROVE total[s] = SumStep(f, {a}, total)[s]
    BY <1>1 DEF SumStep
  <2> QED
    BY <2>1 DEF SumStep
<1>3. sum = SumStep(f, {a}, sum)
  BY <1>2
<1> HIDE DEF sum
<1>4. \A s \in SUBSET {a} : sum[s] = IF s = {} THEN 0
        ELSE f[CHOOSE x \in s : TRUE] + sum[s \ {CHOOSE x \in s : TRUE}]
  BY <1>3 DEF SumStep
<1>5. sum[{}] = 0 /\ {a} \in SUBSET {a} /\ {a} # {} /\ {a} \ {a} = {}
  BY <1>4
<1>6. sum[{a}] = f[a] + sum[{}]
  BY <1>1, <1>4, <1>5
<1>7. SumOver(f, {a}) = sum[{a}]
  BY DEF SumOver, sum
<1> QED
  BY <1>5, <1>6, <1>7, SumIsOver

\* The three exits of a trade.
LEMMA SumOfExits ==
    ASSUME NEW f, f["stop"] \in Int, f["target"] \in Int, f["exit"] \in Int
    PROVE  SumFunctionOnSet(f, Exits) = f["stop"] + f["target"] + f["exit"]
<1>a. SUFFICES ASSUME NEW a, NEW b, NEW c, a = "stop", b = "target", c = "exit"
               PROVE  SumFunctionOnSet(f, Exits) = f[a] + f[b] + f[c]
  OBVIOUS
<1>b. Exits = {a, b, c}
  BY <1>a DEF Exits, Legs
<1> a # b /\ b # c /\ a # c
  BY <1>a
<1> f[a] \in Int /\ f[b] \in Int /\ f[c] \in Int
  BY <1>a
<1> a \in Exits /\ b \in Exits /\ c \in Exits
  BY <1>b
<1> \A x \in Exits : x = a \/ x = b \/ x = c
  BY <1>b
<1> DEFINE sum == CHOOSE g : g = SumStep(f, Exits, g)
           Part(x, s) == IF x \in s THEN f[x] ELSE 0
           total == [s \in SUBSET Exits |-> Part(a, s) + Part(b, s) + Part(c, s)]
           Any(s) == CHOOSE x \in s : TRUE
<1>1. \A s \in SUBSET Exits : s # {} => Any(s) \in s
  OBVIOUS
<1>2. total = SumStep(f, Exits, total)
  <2>1. ASSUME NEW s \in SUBSET Exits, s # {} PROVE total[s] = f[Any(s)] + total[s \ {Any(s)}]
    <3>1. Any(s) \in s
      BY <1>1, <2>1
    <3> HIDE DEF Any
    <3>2. ASSUME NEW x \in s PROVE total[s] = f[x] + total[s \ {x}]
      <4>1. CASE x = a
        BY <4>1
      <4>2. CASE x = b
        BY <4>2
      <4>3. CASE x = c
        BY <4>3
      <4> QED
        BY <4>1, <4>2, <4>3
    <3> QED
      BY <3>1, <3>2
  <2>2. total[{}] = 0
    OBVIOUS
  <2>3. ASSUME NEW s \in SUBSET Exits PROVE total[s] = SumStep(f, Exits, total)[s]
    <3> HIDE DEF total
    <3> QED
      BY <2>1, <2>2 DEF SumStep
  <2> HIDE DEF total
  <2>4. total = [s \in SUBSET Exits |-> total[s]]
    BY DEF total
  <2> QED
    BY <2>3, <2>4 DEF SumStep
<1>3. sum = SumStep(f, Exits, sum)
  <2> HIDE DEF total
  <2> QED
    BY <1>2
<1> HIDE DEF sum
<1>4. /\ sum[{}] = 0
      /\ \A s \in SUBSET Exits : s # {} => sum[s] = f[Any(s)] + sum[s \ {Any(s)}]
  BY <1>3 DEF SumStep
<1> HIDE DEF Any
<1>5. \A x \in Exits : sum[{x}] = f[x]
  <2>1. ASSUME NEW x \in Exits PROVE sum[{x}] = f[x]
    <3>1. Any({x}) = x
      BY <1>1
    <3>2. sum[{x}] = f[x] + sum[{}]
      BY <1>4, <3>1
    <3> QED
      BY <1>4, <3>2
  <2> QED
    BY <2>1
<1>6. \A x, y \in Exits : x # y => sum[{x, y}] = f[x] + f[y]
  <2>1. ASSUME NEW x \in Exits, NEW y \in Exits, x # y PROVE sum[{x, y}] = f[x] + f[y]
    <3>1. Any({x, y}) \in {x, y}
      BY <1>1
    <3>2. sum[{x, y}] = f[Any({x, y})] + sum[{x, y} \ {Any({x, y})}]
      BY <1>4
    <3>3. {x, y} \ {x} = {y} /\ {x, y} \ {y} = {x}
      BY <2>1
    <3>4. CASE Any({x, y}) = x
      BY <1>5, <3>2, <3>3, <3>4
    <3>5. CASE Any({x, y}) = y
      <4>1. sum[{x, y}] = f[y] + f[x]
        BY <1>5, <3>2, <3>3, <3>5
      <4> QED
        BY <4>1
    <3> QED
      BY <3>1, <3>4, <3>5
  <2> QED
    BY <2>1
<1>7. Exits \ {a} = {b, c} /\ Exits \ {b} = {a, c} /\ Exits \ {c} = {a, b}
  OBVIOUS
<1>8. sum[Exits] = f[Any(Exits)] + sum[Exits \ {Any(Exits)}] /\ Any(Exits) \in Exits
  BY <1>1, <1>4
<1>9. /\ sum[{b, c}] = f[b] + f[c]
      /\ sum[{a, c}] = f[a] + f[c]
      /\ sum[{a, b}] = f[a] + f[b]
  BY <1>6
<1>10. sum[Exits] = f[a] + f[b] + f[c]
  <2>1. CASE Any(Exits) = a
    <3>1. sum[Exits] = f[a] + sum[{b, c}]
      BY <1>7, <1>8, <2>1
    <3> QED
      BY <1>9, <3>1
  <2>2. CASE Any(Exits) = b
    <3>1. sum[Exits] = f[b] + sum[{a, c}]
      BY <1>7, <1>8, <2>2
    <3> QED
      BY <1>9, <3>1
  <2>3. CASE Any(Exits) = c
    <3>1. sum[Exits] = f[c] + sum[{a, b}]
      BY <1>7, <1>8, <2>3
    <3> QED
      BY <1>9, <3>1
  <2> QED
    BY <1>8, <2>1, <2>2, <2>3
<1> QED
  BY <1>10, SumIsOver DEF SumOver, sum

-----------------------------------------------------------------------------
(* A closed trade is sold.  It holds for one daemon that has one trade on a *)
(* symbol: the book of an account is read by symbol, and a second daemon   *)
(* sells from an account of its own.                                       *)

OneDaemon == \A m, n \in Modes : m = n

OneTradeEach == \A t, u \in Trades : SymbolOf[t] = SymbolOf[u] => t = u

\* What an account has sold of a trade.
Sold(m, t) == done[m][t]["stop"] + done[m][t]["target"] + done[m][t]["exit"]

\* What a broker executes: an entry is placed once, an exit after it was sent,
\* a leg after its parent.
BrokerOK == \A m \in Modes, t \in Trades :
    /\ sent[m][t]["entry"] <= 1
    /\ done[m][t]["entry"] <= Lots
    /\ done[m][t]["exit"] > 0 => sent[m][t]["exit"] > 0
    /\ \A leg \in Legs : done[m][t][leg] > 0 => done[m][t]["entry"] = Lots

\* An exit was sent, or the whole entry is sold: either is so for good.
Covered(m, t) == sent[m][t]["exit"] > 0 \/ Sold(m, t) >= Lots

\* A reconciliation keeps the book it read to itself, and a trade it found
\* flat was covered if it had any fill.
FlatIsCovered == \A m \in Modes :
    /\ recon[m] # "positions" => flat[m] = {}
    /\ \A t \in flat[m] : ModeOf[t] = m /\ (HasFills(t) => Covered(m, t))

ClosedIsCovered == \A t \in Trades : trade[t] = "closed" => Covered(ModeOf[t], t)

Coverage == BrokerOK /\ FlatIsCovered /\ ClosedIsCovered

LEMMA ExecutedIsSold ==
    ASSUME TypeOK, NEW m \in Modes, NEW t \in Trades
    PROVE  Executed(m, t, Exits) = Sold(m, t)
<1> DEFINE f == done[m][t]
<1>1. /\ f["stop"] \in Int /\ f["target"] \in Int /\ f["exit"] \in Int
  BY DEF TypeOK, Roles, Exits, Legs
<1>2. SumFunctionOnSet(f, Exits) = f["stop"] + f["target"] + f["exit"]
  <2> HIDE DEF f
  <2> QED
    BY <1>1, SumOfExits
<1> QED
  BY <1>2 DEF Executed, Sold

LEMMA PositionIsHeld ==
    ASSUME TypeOK, OneTradeEach, NEW m \in Modes, NEW t \in Trades
    PROVE  Position(m, SymbolOf[t]) = Held(m, t)
<1> DEFINE held == [u \in Trades |-> Held(m, u)]
<1>1. {u \in Trades : SymbolOf[u] = SymbolOf[t]} = {t}
  BY DEF OneTradeEach
<1>2. done[m][t]["entry"] \in Nat /\ Sold(m, t) \in Nat
  BY DEF TypeOK, Roles, Exits, Legs, Sold
<1>3. held[t] = Held(m, t) /\ held[t] \in Int
  BY <1>2, ExecutedIsSold DEF Held
<1>4. SumFunctionOnSet(held, {t}) = Held(m, t)
  BY <1>3, SumOfOne
<1> QED
  BY <1>1, <1>4 DEF Position

LEMMA RecordedIsFills ==
    ASSUME TypeOK, OneDaemon, NEW m \in Modes, NEW t \in Trades, NEW r \in Roles
    PROVE  Recorded(t, r) = fills[m][t][r]
<1> DEFINE recorded == [n \in Modes |-> fills[n][t][r]]
<1>1. Modes = {m} /\ DOMAIN recorded = {m}
  BY DEF OneDaemon
<1>2. recorded[m] = fills[m][t][r] /\ recorded[m] \in Int
  BY DEF TypeOK
<1>3. SumFunctionOnSet(recorded, {m}) = fills[m][t][r]
  BY <1>2, SumOfOne
<1> QED
  BY <1>1, <1>3 DEF Recorded, SumFunction

\* Numbers of a trade.
LEMMA Counts ==
    ASSUME TypeOK, NEW m \in Modes, NEW t \in Trades
    PROVE  /\ \A r \in Roles : /\ sent[m][t][r] \in Nat /\ done[m][t][r] \in Nat
                               /\ fills[m][t][r] \in Nat /\ found[m][t][r] \in Nat
           /\ Sold(m, t) \in Nat
           /\ Lots \in Nat /\ Lots > 0
           /\ Roles = {"stop", "target", "exit", "entry"} /\ Legs = {"stop", "target"}
           /\ Exits = {"stop", "target", "exit"}
  BY LedgerAssumption DEF TypeOK, Roles, Exits, Legs, Sold

\* A step that closes nothing, reads no book and records no fill; what was
\* sent and executed may grow.
LEMMA CoverageFrame ==
    ASSUME TypeOK, TypeOK', Coverage, BrokerOK', UNCHANGED fills,
           \A m \in Modes, t \in Trades : Covered(m, t) => Covered(m, t)',
           \A m \in Modes : \/ flat'[m] = {}
                            \/ flat'[m] = flat[m] /\ recon'[m] = recon[m],
           \A t \in Trades : trade'[t] = "closed" => trade[t] = "closed"
    PROVE  Coverage'
<1>1. FlatIsCovered'
  BY DEF Coverage, FlatIsCovered, HasFills, TypeOK
<1>2. ClosedIsCovered'
  BY LedgerAssumption DEF Coverage, ClosedIsCovered
<1> QED
  BY <1>1, <1>2 DEF Coverage

\* The same for a step that neither sends nor executes.
LEMMA CoverageIdle ==
    ASSUME TypeOK, TypeOK', Coverage, UNCHANGED <<fills, sent, done>>,
           \A m \in Modes : \/ flat'[m] = {}
                            \/ flat'[m] = flat[m] /\ recon'[m] = recon[m],
           \A t \in Trades : trade'[t] = "closed" => trade[t] = "closed"
    PROVE  Coverage'
<1>1. BrokerOK'
  BY DEF Coverage, BrokerOK
<1>2. \A m \in Modes, t \in Trades : Covered(m, t) => Covered(m, t)'
  BY DEF Covered, Sold
<1> QED
  BY <1>1, <1>2, CoverageFrame

LEMMA EnterCoverage ==
    ASSUME TypeOK, TypeOK', Coverage, NEW t \in Trades, NEW reply \in Answers, Enter(t, reply)
    PROVE  Coverage'
<1> DEFINE placed == [sent EXCEPT ![ModeOf[t]][t]["entry"] = 1]
<1>1. \A m \in Modes, u \in Trades :
         /\ placed[m][u]["exit"] = sent[m][u]["exit"]
         /\ placed[m][u]["entry"] = sent[m][u]["entry"] \/ placed[m][u]["entry"] = 1
  <2>1. "exit" \in Roles /\ "entry" \in Roles /\ sent \in [Modes -> [Trades -> [Roles -> Nat]]]
    BY DEF TypeOK, Roles, Exits
  <2> QED
    BY <2>1
<1>2. sent' \in {sent, placed} /\ UNCHANGED <<trade, fills, done, recon, flat>>
  BY DEF Enter, ledgerVars, reconVars
<1> HIDE DEF placed
<1>3. BrokerOK'
  BY <1>1, <1>2 DEF Coverage, BrokerOK
<1>4. \A m \in Modes, u \in Trades : Covered(m, u) => Covered(m, u)'
  BY <1>1, <1>2 DEF Covered, Sold
<1> QED
  BY <1>2, <1>3, <1>4, CoverageFrame

LEMMA ExitCoverage ==
    ASSUME TypeOK, TypeOK', Coverage, NEW m \in Modes, NEW t \in Trades, Exit(m, t)
    PROVE  Coverage'
<1> DEFINE placed == [sent EXCEPT ![m][t]["exit"] = @ + 1]
<1>1. \A n \in Modes, u \in Trades :
         /\ placed[n][u]["entry"] = sent[n][u]["entry"]
         /\ sent[n][u]["exit"] > 0 => placed[n][u]["exit"] > 0
  <2>1. "exit" \in Roles /\ "entry" \in Roles /\ sent \in [Modes -> [Trades -> [Roles -> Nat]]]
    BY DEF TypeOK, Roles, Exits
  <2>2. \A n \in Modes, u \in Trades : sent[n][u]["exit"] \in Nat
    BY <2>1
  <2> QED
    BY <2>1, <2>2
<1>2. sent' \in {sent, placed} /\ UNCHANGED <<trade, fills, done, recon, flat>>
  BY DEF Exit, ledgerVars, reconVars
<1> HIDE DEF placed
<1>3. BrokerOK'
  BY <1>1, <1>2 DEF Coverage, BrokerOK
<1>4. \A n \in Modes, u \in Trades : Covered(n, u) => Covered(n, u)'
  BY <1>1, <1>2 DEF Covered, Sold
<1> QED
  BY <1>2, <1>3, <1>4, CoverageFrame

LEMMA ExecuteCoverage ==
    ASSUME TypeOK, TypeOK', Coverage,
           NEW m \in Modes, NEW t \in Trades, NEW r \in Roles, Execute(m, t, r)
    PROVE  Coverage'
<1>1. /\ Working(m, t, r)
      /\ done' = [done EXCEPT ![m][t][r] = @ + 1]
      /\ UNCHANGED <<trade, fills, sent, recon, flat>>
  BY DEF Execute, ledgerVars, reconVars
<1>2. ASSUME NEW n \in Modes, NEW u \in Trades
      PROVE  /\ \A q \in Roles : ~(n = m /\ u = t /\ q = r) => done'[n][u][q] = done[n][u][q]
             /\ n = m /\ u = t => done'[n][u][r] = done[n][u][r] + 1
  BY <1>1 DEF TypeOK
<1>3. ASSUME NEW n \in Modes, NEW u \in Trades
      PROVE  /\ done'[n][u]["entry"] <= Lots
             /\ done'[n][u]["exit"] > 0 => sent[n][u]["exit"] > 0
             /\ \A leg \in Legs : done'[n][u][leg] > 0 => done'[n][u]["entry"] = Lots
  <2>1. /\ sent[n][u]["entry"] <= 1
        /\ done[n][u]["entry"] <= Lots
        /\ done[n][u]["exit"] > 0 => sent[n][u]["exit"] > 0
        /\ \A leg \in Legs : done[n][u][leg] > 0 => done[n][u]["entry"] = Lots
    BY DEF Coverage, BrokerOK
  <2>2. CASE ~(n = m /\ u = t)
    <3>1. \A q \in Roles : done'[n][u][q] = done[n][u][q]
      BY <1>2, <2>2
    <3> QED
      BY <2>1, <3>1, Counts
  <2>3. CASE n = m /\ u = t /\ r = "entry"
    <3>1. done[n][u]["entry"] < Lots * sent[n][u]["entry"]
      BY <1>1, <2>3 DEF Working, Legs
    <3>2. sent[n][u]["entry"] = 0 \/ sent[n][u]["entry"] = 1
      <4>1. sent[n][u]["entry"] \in Nat
        BY Counts
      <4> QED
        BY <2>1, <4>1
    <3>3. done[n][u]["entry"] < Lots
      <4>1. Lots * 0 = 0 /\ Lots * 1 = Lots
        BY Counts
      <4> QED
        BY <3>1, <3>2, <4>1, Counts
    <3>4. done'[n][u]["entry"] = done[n][u]["entry"] + 1
          /\ \A q \in Exits : done'[n][u][q] = done[n][u][q]
      BY <1>2, <2>3, Counts
    <3> QED
      BY <2>1, <3>3, <3>4, Counts
  <2>4. CASE n = m /\ u = t /\ r = "exit"
    <3>1. done[n][u]["exit"] < Lots * sent[n][u]["exit"]
      BY <1>1, <2>4 DEF Working, Legs
    <3>2. sent[n][u]["exit"] > 0
      <4>1. Lots * 0 = 0
        BY Counts
      <4> QED
        BY <3>1, <4>1, Counts
    <3>3. \A q \in Roles \ {"exit"} : done'[n][u][q] = done[n][u][q]
      BY <1>2, <2>4
    <3> QED
      BY <2>1, <3>2, <3>3, Counts
  <2>5. CASE n = m /\ u = t /\ r \in Legs
    <3>1. done[n][u]["entry"] = Lots
      BY <1>1, <2>5 DEF Working
    <3>2. \A q \in {"entry", "exit"} : done'[n][u][q] = done[n][u][q]
      BY <1>2, <2>5, Counts
    <3> QED
      BY <2>1, <3>1, <3>2, Counts
  <2> QED
    BY <2>2, <2>3, <2>4, <2>5, Counts
<1>4. BrokerOK'
  BY <1>1, <1>3 DEF Coverage, BrokerOK
<1>5. ASSUME NEW n \in Modes, NEW u \in Trades, Covered(n, u) PROVE Covered(n, u)'
  <2>1. \A q \in Roles : done'[n][u][q] >= done[n][u][q] /\ done'[n][u][q] \in Nat
    BY <1>2, Counts
  <2>2. Sold(n, u)' >= Sold(n, u) /\ Sold(n, u)' \in Nat
    BY <2>1, Counts DEF Sold
  <2> QED
    BY <1>1, <1>5, <2>2, Counts DEF Covered
<1> QED
  BY <1>1, <1>4, <1>5, CoverageFrame

\* _reconcile_one_fill: the exit that is recorded in full was executed.
LEMMA FillCoverage ==
    ASSUME TypeOK, TypeOK', OneDaemon, Accounted, Coverage,
           NEW m \in Modes, NEW t \in Trades, NEW r \in Roles, ReconFill(m, t, r)
    PROVE  Coverage'
<1>1. /\ recon[m] = "fills" /\ found[m][t][r] > 0
      /\ trade' = IF r \in Exits /\ Recorded(t, r) + 1 >= Lots
                  THEN [trade EXCEPT ![t] = "closed"] ELSE trade
      /\ UNCHANGED <<sent, done, recon, flat>>
  BY DEF ReconFill, brokerVars
<1>2. Modes = {m} /\ ModeOf[t] = m
  BY LedgerAssumption DEF OneDaemon
<1>3. BrokerOK'
  BY <1>1 DEF Coverage, BrokerOK
<1>4. \A u \in Trades : Covered(m, u) => Covered(m, u)'
  BY <1>1 DEF Covered, Sold
<1>5. FlatIsCovered'
  BY <1>1, <1>2 DEF Coverage, FlatIsCovered
<1>6. ASSUME r \in Exits, Recorded(t, r) + 1 >= Lots PROVE Covered(m, t)
  <2>1. fills[m][t][r] + found[m][t][r] <= done[m][t][r]
    BY DEF Accounted
  <2>2. fills[m][t][r] + 1 >= Lots
    BY <1>6, RecordedIsFills
  <2>3. done[m][t][r] >= Lots
    BY <1>1, <2>1, <2>2, Counts
  <2>4. Sold(m, t) >= done[m][t][r]
    BY <1>6, Counts DEF Sold
  <2> QED
    BY <2>3, <2>4, Counts DEF Covered
<1>7. \A u \in Trades : trade'[u] = "closed" => trade[u] = "closed" \/ Covered(m, u)
  BY <1>1, <1>6 DEF TypeOK
<1>8. ClosedIsCovered'
  BY <1>2, <1>4, <1>7, LedgerAssumption DEF Coverage, ClosedIsCovered
<1> QED
  BY <1>3, <1>5, <1>8 DEF Coverage

\* list_positions: an account that holds none of a trade it has executions of
\* has sold it.
LEMMA BookCoverage ==
    ASSUME TypeOK, TypeOK', OneDaemon, OneTradeEach, Accounted, Coverage,
           NEW m \in Modes, ReconPositions(m)
    PROVE  Coverage'
<1>1. /\ recon' = [recon EXCEPT ![m] = "positions"]
      /\ flat' = [flat EXCEPT ![m] =
                    {t \in Trades : ModeOf[t] = m /\ Position(m, SymbolOf[t]) = 0}]
      /\ UNCHANGED <<trade, fills, sent, done>>
  BY DEF ReconPositions, ledgerVars, brokerVars
<1>2. Modes = {m}
  BY DEF OneDaemon
<1>3. ASSUME NEW t \in Trades, Position(m, SymbolOf[t]) = 0, HasFills(t)
      PROVE  Covered(m, t)
  <2>1. done[m][t]["entry"] - Sold(m, t) = 0
    BY <1>3, PositionIsHeld, ExecutedIsSold DEF Held
  <2>2. PICK r \in Roles : fills[m][t][r] > 0
    BY <1>2, <1>3 DEF HasFills
  <2>3. done[m][t][r] > 0
    <3>1. fills[m][t][r] + found[m][t][r] <= done[m][t][r]
      BY DEF Accounted
    <3> QED
      BY <2>2, <3>1, Counts
  <2>4. done[m][t]["entry"] = Sold(m, t)
    BY <2>1, Counts
  <2>5. \E q \in Exits : done[m][t][q] > 0
    BY <2>3, <2>4, Counts DEF Sold
  <2>6. CASE done[m][t]["exit"] > 0
    BY <2>6 DEF Coverage, BrokerOK, Covered
  <2>7. CASE \E leg \in Legs : done[m][t][leg] > 0
    <3>1. done[m][t]["entry"] = Lots
      BY <2>7 DEF Coverage, BrokerOK
    <3> QED
      BY <2>4, <3>1, Counts DEF Covered
  <2> QED
    BY <2>5, <2>6, <2>7 DEF Exits
<1>4. BrokerOK' /\ ClosedIsCovered'
  BY <1>1 DEF Coverage, BrokerOK, ClosedIsCovered, Covered, Sold
<1>5. FlatIsCovered'
  <2>1. recon'[m] = "positions"
        /\ flat'[m] = {t \in Trades : ModeOf[t] = m /\ Position(m, SymbolOf[t]) = 0}
    BY <1>1 DEF TypeOK
  <2>2. \A t \in Trades : (HasFills(t)' => HasFills(t)) /\ (Covered(m, t) => Covered(m, t)')
    BY <1>1 DEF HasFills, Covered, Sold
  <2> QED
    BY <1>2, <1>3, <2>1, <2>2 DEF FlatIsCovered
<1> QED
  BY <1>4, <1>5 DEF Coverage

\* The orphans it closes are the ones it found flat.
LEMMA EndCoverage ==
    ASSUME TypeOK, TypeOK', Coverage, NEW m \in Modes, ReconEnd(m)
    PROVE  Coverage'
<1>1. /\ recon' = [recon EXCEPT ![m] = "idle"]
      /\ flat' = [flat EXCEPT ![m] = {}]
      /\ trade' = [t \in Trades |-> IF Orphan(m, t) THEN "closed" ELSE trade[t]]
      /\ UNCHANGED <<fills, sent, done>>
  BY DEF ReconEnd, brokerVars
<1>2. BrokerOK'
  BY <1>1 DEF Coverage, BrokerOK
<1>3. \A n \in Modes, t \in Trades : Covered(n, t)' = Covered(n, t)
  BY <1>1 DEF Covered, Sold
<1>4. FlatIsCovered'
  BY <1>1, <1>3 DEF Coverage, FlatIsCovered, HasFills, TypeOK
<1>5. ClosedIsCovered'
  BY <1>1, <1>3, LedgerAssumption DEF Coverage, ClosedIsCovered, FlatIsCovered, Orphan
<1> QED
  BY <1>2, <1>4, <1>5 DEF Coverage

LEMMA CoverageStep ==
    ASSUME OneDaemon, OneTradeEach, TypeOK, TypeOK', Accounted, Coverage, [Next]_vars
    PROVE  Coverage'
<1> USE DEF ledgerVars, brokerVars, closeVars, reconVars
<1>1. ASSUME NEW t \in Trades, EnterCommit(t) \/ EnterFails(t) PROVE Coverage'
  BY <1>1, CoverageIdle DEF EnterCommit, EnterFails, TypeOK
<1>2. ASSUME NEW m \in Modes,
             \/ \E t \in Trades : AskExit(m, t) \/ ExitRefused(m, t)
             \/ ExitTimesOut(m) \/ ExitFails(m)
      PROVE  Coverage'
  BY <1>2, CoverageIdle DEF AskExit, ExitRefused, ExitTimesOut, ExitFails
<1>3. ASSUME NEW m \in Modes, ExitCommit(m) PROVE Coverage'
  BY <1>3, CoverageIdle DEF ExitCommit, TypeOK
<1>4. ASSUME NEW m \in Modes,
             (\E missing \in SUBSET Trades : ReconStart(m, missing)) \/ ReconFails(m)
      PROVE  Coverage'
  <2>1. UNCHANGED <<trade, fills, sent, done, flat>>
    BY <1>4 DEF ReconStart, ReconFails
  <2>2. recon[m] # "positions" /\ \A n \in Modes \ {m} : recon'[n] = recon[n]
    BY <1>4 DEF ReconStart, ReconFails, TypeOK
  <2>3. \A n \in Modes : flat'[n] = {} \/ (flat'[n] = flat[n] /\ recon'[n] = recon[n])
    BY <2>1, <2>2 DEF Coverage, FlatIsCovered
  <2> QED
    BY <2>1, <2>3, CoverageIdle
<1>5. ASSUME NEW m \in Modes, NEW t \in Trades, NEW r \in Roles, ReconMissing(m, t, r)
      PROVE  Coverage'
  BY <1>5, CoverageIdle DEF ReconMissing
<1>6. ASSUME NEW m \in Modes, Crash(m) PROVE Coverage'
  <2>1. UNCHANGED <<trade, fills, sent, done>>
    BY <1>6 DEF Crash
  <2>2. \A n \in Modes : flat'[n] = {} \/ (flat'[n] = flat[n] /\ recon'[n] = recon[n])
    BY <1>6 DEF Crash, TypeOK
  <2> QED
    BY <2>1, <2>2, CoverageIdle
<1>7. CASE UNCHANGED vars
  BY <1>7, CoverageIdle DEF vars
<1>8. CASE Next
  BY <1>1, <1>2, <1>3, <1>4, <1>5, <1>6, <1>8, EnterCoverage, ExitCoverage, ExecuteCoverage,
     FillCoverage, BookCoverage, EndCoverage DEF Next
<1> QED
  BY <1>7, <1>8

LEMMA InitCoverage == Init => Coverage
  BY LedgerAssumption DEF Init, Coverage, BrokerOK, FlatIsCovered, ClosedIsCovered, PerOrder,
     Roles, Exits, Legs

\* "closed means the trade has already terminated" (TradeNotClosableError,
\* _reconcile_one_fill, _reconcile_positions): with one daemon and one trade
\* on a symbol, the account of a closed trade holds nothing of it, or an exit
\* that sells the rest is still working.
THEOREM ClosedIsSold == OneDaemon /\ OneTradeEach /\ Spec => []ClosedIsNotHeld
<1> SUFFICES ASSUME OneDaemon, OneTradeEach PROVE Spec => []ClosedIsNotHeld
  OBVIOUS
<1>1. IInv /\ IInv' /\ Coverage /\ [Next]_vars => Coverage'
  BY CoverageStep DEF IInv
<1>2. Spec => []Coverage
  BY <1>1, InitCoverage, Invariance, PTL DEF Spec
<1>3. ASSUME IInv, Coverage, NEW t \in Trades, trade[t] = "closed"
      PROVE  Held(ModeOf[t], t) <= 0 \/ Working(ModeOf[t], t, "exit")
  <2> DEFINE m == ModeOf[t]
  <2> HIDE DEF m
  <2>1. m \in Modes /\ TypeOK
    BY <1>3, LedgerAssumption DEF IInv, m
  <2>2. Covered(m, t) /\ done[m][t]["entry"] <= Lots
    BY <1>3, <2>1 DEF Coverage, ClosedIsCovered, BrokerOK, m
  <2>3. Held(m, t) = done[m][t]["entry"] - Sold(m, t)
    BY <2>1, ExecutedIsSold DEF Held
  <2>4. CASE Sold(m, t) >= Lots
    BY <2>1, <2>2, <2>3, <2>4, Counts DEF m
  <2>5. CASE sent[m][t]["exit"] > 0
    <3>1. Lots * sent[m][t]["exit"] >= Lots
      BY <2>1, <2>5, Counts
    <3>2. done[m][t]["exit"] <= Sold(m, t)
      BY <2>1, Counts DEF Sold
    <3>3. Held(m, t) <= 0 \/ done[m][t]["exit"] < Lots * sent[m][t]["exit"]
      BY <2>1, <2>2, <2>3, <3>1, <3>2, Counts
    <3>4. Working(m, t, "exit") = (done[m][t]["exit"] < Lots * sent[m][t]["exit"])
      BY DEF Working, Legs
    <3> QED
      BY <3>3, <3>4 DEF m
  <2> QED
    BY <2>2, <2>4, <2>5 DEF Covered
<1>4. IInv /\ Coverage => ClosedIsNotHeld
  BY <1>3 DEF ClosedIsNotHeld
<1> QED
  BY <1>2, <1>4, Invariance, PTL

-----------------------------------------------------------------------------
(* How much an account may sell, for any number of daemons.                *)

\* An account sells a trade through one exit order, one more for every exit it
\* lost track of, and the native bracket of a trade of its own.
Bracketed(m, t) == IF m = ModeOf[t] /\ m \notin Sweeping THEN 1 ELSE 0

SellsAreBounded ==
    \A m \in Modes, t \in Trades :
        Executed(m, t, Exits) <= Lots * (1 + lost[m][t] + Bracketed(m, t))

\* An exit is executed as often as it was sent; of a bracket one leg is.
Sellable(m, t) ==
    /\ done[m][t]["exit"] <= Lots * sent[m][t]["exit"]
    /\ done[m][t]["stop"] + done[m][t]["target"] <= Lots * Bracketed(m, t)
    /\ done[m][t]["stop"] = 0 \/ done[m][t]["target"] = 0

AllSellable == \A m \in Modes, t \in Trades : Sellable(m, t)

LEMMA SellableSend ==
    ASSUME TypeOK, TypeOK', AllSellable, UNCHANGED done,
           \A m \in Modes, t \in Trades : sent'[m][t]["exit"] >= sent[m][t]["exit"]
    PROVE  AllSellable'
<1> SUFFICES ASSUME NEW m \in Modes, NEW t \in Trades PROVE Sellable(m, t)'
  BY DEF AllSellable
<1>1. sent[m][t]["exit"] \in Nat /\ sent'[m][t]["exit"] \in Nat /\ done[m][t]["exit"] \in Nat
  BY DEF TypeOK, Roles, Exits
<1>2. ASSUME NEW a \in Nat, NEW b \in Nat, b >= a PROVE Lots * b >= Lots * a
  BY <1>2, LedgerAssumption
<1>3. Lots * sent'[m][t]["exit"] >= Lots * sent[m][t]["exit"]
  BY <1>1, <1>2
<1>4. Lots * sent'[m][t]["exit"] \in Nat /\ Lots * sent[m][t]["exit"] \in Nat
  BY <1>1, LedgerAssumption
<1>5. Sellable(m, t)
  BY DEF AllSellable
<1> QED
  BY <1>1, <1>3, <1>4, <1>5 DEF Sellable, Bracketed

LEMMA SellableExecute ==
    ASSUME TypeOK, AllSellable, NEW m \in Modes, NEW t \in Trades, NEW r \in Roles,
           Execute(m, t, r)
    PROVE  AllSellable'
<1>1. /\ Working(m, t, r)
      /\ done' = [done EXCEPT ![m][t][r] = @ + 1]
      /\ UNCHANGED sent
  BY DEF Execute
<1>2. \A n \in Modes, u \in Trades, q \in Roles :
         done'[n][u][q] = IF n = m /\ u = t /\ q = r THEN done[n][u][q] + 1
                          ELSE done[n][u][q]
  BY <1>1 DEF TypeOK
<1> SUFFICES ASSUME NEW n \in Modes, NEW u \in Trades PROVE Sellable(n, u)'
  BY DEF AllSellable
<1>3. Sellable(n, u)
  BY DEF AllSellable
<1>4. Bracketed(n, u)' = Bracketed(n, u)
  BY DEF Bracketed
<1>5. {"exit", "stop", "target"} \subseteq Roles
  BY DEF Roles, Exits, Legs
<1>6. CASE n # m \/ u # t \/ r = "entry"
  <2>1. \A q \in {"exit", "stop", "target"} : done'[n][u][q] = done[n][u][q]
    BY <1>2, <1>5, <1>6
  <2> QED
    BY <1>1, <1>3, <1>4, <2>1 DEF Sellable
<1>7. CASE n = m /\ u = t /\ r = "exit"
  <2>1. /\ done'[n][u]["exit"] = done[n][u]["exit"] + 1
        /\ done'[n][u]["stop"] = done[n][u]["stop"]
        /\ done'[n][u]["target"] = done[n][u]["target"]
    BY <1>2, <1>5, <1>7
  <2>2. done[n][u]["exit"] < Lots * sent[n][u]["exit"]
    BY <1>1, <1>7 DEF Working, Legs
  <2>3. done[n][u]["exit"] \in Nat /\ Lots * sent[n][u]["exit"] \in Nat
    BY Counts, <1>5
  <2>4. done'[n][u]["exit"] <= Lots * sent'[n][u]["exit"]
    BY <1>1, <2>1, <2>2, <2>3
  <2> QED
    BY <1>3, <1>4, <2>1, <2>4 DEF Sellable
<1>8. CASE n = m /\ u = t /\ r \in Legs
  <2>1. /\ done[n][u][r] < Lots
        /\ \A other \in Legs \ {r} : done[n][u][other] = 0
        /\ Bracketed(n, u) = 1
    BY <1>1, <1>8 DEF Working, Bracketed
  <2>2. Lots * Bracketed(n, u) = Lots
    BY <2>1, LedgerAssumption
  <2>3. done'[n][u]["exit"] = done[n][u]["exit"]
    BY <1>2, <1>5, <1>8 DEF Legs
  <2>4. \A q \in Roles : done[n][u][q] \in Nat
    BY Counts
  <2>5. CASE r = "stop"
    <3>1. done[n][u]["target"] = 0 /\ done[n][u]["stop"] < Lots
      BY <2>1, <2>5 DEF Legs
    <3>2. done'[n][u]["target"] = 0 /\ done'[n][u]["stop"] = done[n][u]["stop"] + 1
      BY <1>2, <1>5, <1>8, <2>5, <3>1
    <3>3. done'[n][u]["stop"] + done'[n][u]["target"] <= Lots
      BY <1>5, <2>4, <3>1, <3>2, LedgerAssumption
    <3> QED
      BY <1>1, <1>3, <1>4, <2>2, <2>3, <3>2, <3>3 DEF Sellable
  <2>6. CASE r = "target"
    <3>1. done[n][u]["stop"] = 0 /\ done[n][u]["target"] < Lots
      BY <2>1, <2>6 DEF Legs
    <3>2. done'[n][u]["stop"] = 0 /\ done'[n][u]["target"] = done[n][u]["target"] + 1
      BY <1>2, <1>5, <1>8, <2>6, <3>1
    <3>3. done'[n][u]["stop"] + done'[n][u]["target"] <= Lots
      BY <1>5, <2>4, <3>1, <3>2, LedgerAssumption
    <3> QED
      BY <1>1, <1>3, <1>4, <2>2, <2>3, <3>2, <3>3 DEF Sellable
  <2> QED
    BY <1>8, <2>5, <2>6 DEF Legs
<1> QED
  BY <1>6, <1>7, <1>8 DEF Roles, Exits

LEMMA SellableStep ==
    ASSUME TypeOK, TypeOK', AllSellable, [Next]_vars
    PROVE  AllSellable'
<1> USE DEF ledgerVars, brokerVars, closeVars, reconVars
<1>1. ASSUME UNCHANGED <<sent, done>> PROVE AllSellable'
  BY <1>1 DEF AllSellable, Sellable, Bracketed
<1>2. ASSUME NEW t \in Trades, NEW reply \in Answers, Enter(t, reply) PROVE AllSellable'
  <2>1. \A m \in Modes, u \in Trades : sent'[m][u]["exit"] = sent[m][u]["exit"]
    <3> DEFINE placed == [sent EXCEPT ![ModeOf[t]][t]["entry"] = 1]
    <3>1. \A m \in Modes, u \in Trades : placed[m][u]["exit"] = sent[m][u]["exit"]
      <4>1. "exit" \in Roles /\ sent \in [Modes -> [Trades -> [Roles -> Nat]]]
        BY DEF TypeOK, Roles, Exits
      <4> QED
        BY <4>1
    <3>2. sent' \in {sent, placed}
      BY <1>2 DEF Enter
    <3> HIDE DEF placed
    <3> QED
      BY <3>1, <3>2
  <2>2. \A m \in Modes, u \in Trades : sent'[m][u]["exit"] >= sent[m][u]["exit"]
    BY <2>1, Counts DEF Enter
  <2> QED
    BY <1>2, <2>2, SellableSend DEF Enter
<1>3. ASSUME NEW m \in Modes, NEW t \in Trades, Exit(m, t) PROVE AllSellable'
  <2>1. "exit" \in Roles
    BY DEF Roles, Exits
  <2>2. \A n \in Modes, u \in Trades : sent'[n][u]["exit"] >= sent[n][u]["exit"]
    BY <1>3, <2>1 DEF Exit, TypeOK
  <2> QED
    BY <1>3, <2>2, SellableSend DEF Exit
<1>4. ASSUME NEW t \in Trades, EnterCommit(t) \/ EnterFails(t) PROVE AllSellable'
  BY <1>1, <1>4 DEF EnterCommit, EnterFails
<1>5. ASSUME NEW m \in Modes,
             \/ \E t \in Trades : AskExit(m, t) \/ ExitRefused(m, t)
             \/ ExitTimesOut(m) \/ ExitCommit(m) \/ ExitFails(m)
      PROVE  AllSellable'
  BY <1>1, <1>5 DEF AskExit, ExitRefused, ExitTimesOut, ExitCommit, ExitFails
<1>6. ASSUME NEW m \in Modes, NEW t \in Trades, NEW r \in Roles,
             ReconFill(m, t, r) \/ ReconMissing(m, t, r)
      PROVE  AllSellable'
  BY <1>1, <1>6 DEF ReconFill, ReconMissing
<1>7. ASSUME NEW m \in Modes,
             \/ \E missing \in SUBSET Trades : ReconStart(m, missing)
             \/ ReconFails(m) \/ ReconPositions(m) \/ ReconEnd(m) \/ Crash(m)
      PROVE  AllSellable'
  BY <1>1, <1>7 DEF ReconStart, ReconFails, ReconPositions, ReconEnd, Crash
<1>8. CASE UNCHANGED vars
  BY <1>1, <1>8 DEF vars
<1>9. CASE Next
  BY <1>2, <1>3, <1>4, <1>5, <1>6, <1>7, <1>9, SellableExecute DEF Next
<1> QED
  BY <1>8, <1>9

LEMMA InitSellable == Init => AllSellable
<1> SUFFICES ASSUME Init, NEW m \in Modes, NEW t \in Trades PROVE Sellable(m, t)
  BY DEF AllSellable
<1>1. \A r \in Roles : done[m][t][r] = 0 /\ sent[m][t][r] = 0
  BY DEF Init, PerOrder
<1>2. Lots * 0 = 0 /\ Lots * Bracketed(m, t) \in Nat
  BY LedgerAssumption DEF Bracketed
<1> QED
  BY <1>1, <1>2 DEF Sellable, Roles, Exits, Legs

\* However many daemons ask for exits of a trade, and however they interleave
\* with fills, late answers and crashes, an account sells at most one position
\* more than it lost exits, and one more where a bracket rests: the double
\* sell of close_trade costs one position, never more.
THEOREM DoubleSellBounded == Spec => []SellsAreBounded
<1>1. IInv /\ IInv' /\ AllSellable /\ [Next]_vars => AllSellable'
  BY SellableStep DEF IInv
<1>2. Spec => []AllSellable
  BY <1>1, InitSellable, Invariance, PTL DEF Spec
<1>3. ASSUME IInv, AllSellable, NEW m \in Modes, NEW t \in Trades
      PROVE  Executed(m, t, Exits) <= Lots * (1 + lost[m][t] + Bracketed(m, t))
  <2> DEFINE s == sent[m][t]["exit"]
             l == lost[m][t]
             b == Bracketed(m, t)
  <2>1. s \in Nat /\ l \in Nat /\ b \in Nat /\ Lots \in Nat
    BY <1>3, LedgerAssumption DEF IInv, TypeOK, Roles, Exits, Bracketed
  <2>2. s <= l + 1
    BY <1>3, <2>1 DEF IInv, Counted, OneAhead
  <2>3. Executed(m, t, Exits) <= Lots * s + Lots * b
    <3>1. /\ done[m][t]["exit"] \in Nat /\ done[m][t]["stop"] \in Nat
          /\ done[m][t]["target"] \in Nat
      BY <1>3 DEF IInv, TypeOK, Roles, Exits, Legs
    <3>2. /\ done[m][t]["exit"] <= Lots * s
          /\ done[m][t]["stop"] + done[m][t]["target"] <= Lots * b
      BY <1>3 DEF AllSellable, Sellable
    <3>3. Executed(m, t, Exits)
            = done[m][t]["stop"] + done[m][t]["target"] + done[m][t]["exit"]
      BY <1>3, ExecutedIsSold DEF IInv, Sold
    <3>4. Lots * s \in Nat /\ Lots * b \in Nat
      BY <2>1
    <3> HIDE DEF s, b
    <3> QED
      BY <3>1, <3>2, <3>3, <3>4
  <2>4. Executed(m, t, Exits) \in Int
    BY <1>3, ExecutedIsSold, Counts DEF IInv
  <2> HIDE DEF s, l, b
  <2>5. Lots * s <= Lots * (l + 1)
    BY <2>1, <2>2
  <2>6. Lots * (1 + l + b) = Lots * (l + 1) + Lots * b
    BY <2>1
  <2>7. /\ Lots * s \in Nat /\ Lots * b \in Nat /\ Lots * (l + 1) \in Nat
        /\ Lots * (1 + l + b) \in Nat
    BY <2>1
  <2>8. Executed(m, t, Exits) <= Lots * (1 + l + b)
    BY <2>3, <2>4, <2>5, <2>6, <2>7
  <2> QED
    BY <2>8 DEF l, b
<1>4. IInv /\ AllSellable => SellsAreBounded
  BY <1>3 DEF SellsAreBounded
<1> QED
  BY <1>2, <1>4, Invariance, PTL

===============================================================================

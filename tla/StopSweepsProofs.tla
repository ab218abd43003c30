-------------------------- MODULE StopSweepsProofs --------------------------
(***************************************************************************)
(* Theorems about StopSweeps, for any trades, daemons, price histories and *)
(* bounds.                                                                 *)
(***************************************************************************)
EXTENDS StopSweeps, FiniteSetTheorems, TLAPS

-----------------------------------------------------------------------------
(* Type correctness.                                                       *)

\* A candidate stop is a price.
LEMMA CandidateType ==
    ASSUME NEW past \in Seq(UNION Range(Bars)), Len(past) > 1,
           Len(past) <= Len(Bars)
    PROVE  Candidate(past) \in Int
<1>1. Len(past) \in 2..Len(Bars)
  BY SweepAssumption
<1>2. past \in [1..Len(past) -> UNION Range(Bars)]
  OBVIOUS
<1>3. QED
  BY <1>1, <1>2, PriceAssumption

\* A worklist is Idle or a set of trades, and stays so when a trade is taken.
LEMMA Lists ==
    /\ Idle \in Worklists /\ None \notin Trades
    /\ \A S \in SUBSET Trades : S \in Worklists /\ S # Idle
    /\ \A S \in Worklists : \A t \in S \ Idle :
         t \in Trades /\ S \ {t} \in Worklists /\ S \ {t} # Idle /\ S # Idle
<1>1. None \notin Trades
  BY SweepAssumption
<1>2. Idle \in Worklists
  BY DEF Worklists
<1>3. ASSUME NEW S \in SUBSET Trades PROVE S \in Worklists /\ S # Idle
  BY <1>1, <1>3 DEF Worklists, Idle
<1>4. ASSUME NEW S \in Worklists, NEW t \in S \ Idle
      PROVE  t \in Trades /\ S \ {t} \in Worklists /\ S \ {t} # Idle /\ S # Idle
  <2>1. S \in SUBSET Trades
    BY <1>4 DEF Worklists
  <2>2. S \ {t} \in SUBSET Trades /\ t \in Trades
    BY <2>1
  <2>3. QED
    BY <1>3, <2>1, <2>2
<1>5. QED
  BY <1>1, <1>2, <1>3, <1>4

LEMMA TInit == Init => TypeOK
<1> SUFFICES ASSUME Init PROVE TypeOK
  OBVIOUS
<1> USE SweepAssumption DEF Init
<1>1. WorldOK
  BY DEF WorldOK
<1>2. TrailOK
  BY Lists DEF TrailOK, Rows, NoRow
<1>3. HitOK /\ ReviewOK
  BY Lists DEF HitOK, ReviewOK
<1>4. CardOK /\ CloseOK
  BY DEF CardOK, CloseOK
<1>5. QED
  BY <1>1, <1>2, <1>3, <1>4 DEF TypeOK

LEMMA TTrailStart ==
    ASSUME TypeOK, NEW m \in Modes, TrailStart(m)
    PROVE  TypeOK'
<1> USE SweepAssumption DEF TypeOK
<1>1. TrailOK'
  BY Lists DEF TrailStart, TrailOK, Open, Rows, NoRow, marketVars,
       trailVars, hitVars, reviewVars, cardVars, closeVars
<1>2. (WorldOK /\ HitOK /\ ReviewOK /\ CardOK /\ CloseOK)'
  BY DEF TrailStart, WorldOK, HitOK, ReviewOK, CardOK, CloseOK, Idle,
       marketVars, trailVars, hitVars, reviewVars, cardVars, closeVars
<1>3. QED
  BY <1>1, <1>2

LEMMA TTrailRead ==
    ASSUME TypeOK, NEW m \in Modes, NEW t \in Trades, TrailRead(m, t)
    PROVE  TypeOK'
<1> USE SweepAssumption DEF TypeOK
<1>1. TrailOK'
  BY Lists DEF TrailRead, TrailOK, Rows, NoRow, marketVars, trailVars,
       hitVars, reviewVars, cardVars, closeVars
<1>2. (WorldOK /\ HitOK /\ ReviewOK /\ CardOK /\ CloseOK)'
  BY DEF TrailRead, WorldOK, HitOK, ReviewOK, CardOK, CloseOK, Idle,
       marketVars, trailVars, hitVars, reviewVars, cardVars, closeVars
<1>3. QED
  BY <1>1, <1>2

LEMMA TTrailOne ==
    ASSUME TypeOK, NEW m \in Modes, TrailOne(m)
    PROVE  TypeOK'
<1> USE SweepAssumption DEF TypeOK
<1>1. TrailOK'
  <2> DEFINE t == trailing[m]
  <2>1. t \in Trades
    BY DEF TrailOne, TrailOK
  <2>2. CASE Trailed(SideOf[t], Entry[t], trailFrom[m], bars[t])
    <3>1. Candidate(bars[t]) \in Int
      BY <2>1, <2>2, CandidateType DEF Trailed, WorldOK
    <3> DEFINE row == [at |-> clock + 1, level |-> Candidate(bars[t])]
    <3>2. row \in Rows
      BY <3>1 DEF TrailOK, Rows
    <3>3. /\ batch' = [batch EXCEPT ![m][t] = row]
          /\ clock' = clock + 1 /\ UNCHANGED <<stop, trailTodo>>
          /\ trailing' = [trailing EXCEPT ![m] = None]
          /\ trailFrom' = [trailFrom EXCEPT ![m] = 0]
      BY <2>2 DEF TrailOne
    <3>4. trailTodo[m] # Idle
      BY <2>1, Lists DEF TrailOK
    <3>5. batch' \in [Modes -> [Trades -> Rows]]
      BY <2>1, <3>2, <3>3 DEF TrailOK
    <3>6. \A n \in Modes : \A u \in Trades :
             batch'[n][u] = batch[n][u] \/ (n = m /\ batch'[n][u] = row)
      BY <2>1, <3>3 DEF TrailOK
    <3>7. ASSUME NEW n \in Modes, NEW u \in Trades
          PROVE  batch'[n][u].at <= clock'
      <4>1. batch[n][u] \in Rows /\ batch[n][u].at <= clock /\ clock \in Nat
        BY DEF TrailOK
      <4>2. batch[n][u].at \in Nat /\ clock' = clock + 1 /\ row.at = clock + 1
        BY <3>3, <4>1 DEF Rows
      <4> HIDE DEF row
      <4>3. CASE batch'[n][u] = batch[n][u]
        BY <4>1, <4>2, <4>3
      <4>4. CASE batch'[n][u] = row
        BY <4>1, <4>2, <4>4
      <4>5. QED
        BY <3>6, <4>3, <4>4
    <3>8. \A n \in Modes : trailTodo'[n] = Idle =>
             trailing'[n] = None /\ \A u \in Trades : batch'[n][u] = NoRow
      BY <3>3, <3>4, <3>6 DEF TrailOK
    <3>9. \A u \in Trades : stop'[u].at <= clock'
      BY <3>3 DEF TrailOK, Rows
    <3>10. /\ clock' \in Nat /\ stop' \in [Trades -> Rows]
           /\ trailTodo' \in [Modes -> Worklists]
      BY <3>3 DEF TrailOK
    <3>11. /\ trailing' \in [Modes -> Trades \cup {None}]
           /\ trailFrom' \in [Modes -> Int]
           /\ raced' \in [Modes -> SUBSET Trades]
      BY <3>3 DEF TrailOK, TrailOne
    <3>12. QED
      BY <3>5, <3>7, <3>8, <3>9, <3>10, <3>11 DEF TrailOK
  <2>3. CASE ~Trailed(SideOf[t], Entry[t], trailFrom[m], bars[t])
    BY <2>3 DEF TrailOne, TrailOK
  <2>4. QED
    BY <2>2, <2>3
<1>2. (WorldOK /\ HitOK /\ ReviewOK /\ CardOK /\ CloseOK)'
  BY DEF TrailOne, WorldOK, HitOK, ReviewOK, CardOK, CloseOK, Idle,
       marketVars, trailVars, hitVars, reviewVars, cardVars, closeVars
<1>3. QED
  BY <1>1, <1>2

LEMMA TTrailEnd ==
    ASSUME TypeOK, NEW m \in Modes, TrailEnd(m)
    PROVE  TypeOK'
<1> USE SweepAssumption DEF TypeOK
<1>1. TrailOK'
  <2>1. /\ stop' \in [Trades -> Rows] /\ clock' = clock /\ clock' \in Nat
        /\ \A t \in Trades : stop'[t].at <= clock'
    <3>1. /\ stop' = [t \in Trades |-> Newest(batch[m][t], stop[t])]
          /\ clock' = clock /\ clock \in Nat
      BY DEF TrailEnd, TrailOK
    <3>2. \A t \in Trades : /\ batch[m][t] \in Rows /\ batch[m][t].at <= clock
                            /\ stop[t] \in Rows /\ stop[t].at <= clock
      BY DEF TrailOK
    <3>3. \A t \in Trades : Newest(batch[m][t], stop[t]) \in {batch[m][t], stop[t]}
      BY DEF Newest
    <3>4. QED
      BY <3>1, <3>2, <3>3
  <2>2. /\ trailTodo' \in [Modes -> Worklists]
        /\ trailing' \in [Modes -> Trades \cup {None}]
        /\ trailFrom' \in [Modes -> Int]
        /\ raced' \in [Modes -> SUBSET Trades]
    BY Lists DEF TrailEnd, TrailOK
  <2>3. NoRow \in Rows /\ NoRow.at = 0
    BY DEF NoRow, Rows
  <2>4. /\ batch' \in [Modes -> [Trades -> Rows]]
        /\ \A n \in Modes : \A t \in Trades :
              batch'[n][t] = batch[n][t] \/ (n = m /\ batch'[n][t] = NoRow)
    <3>1. batch' = [batch EXCEPT ![m] = [t \in Trades |-> NoRow]]
      BY DEF TrailEnd
    <3>2. [t \in Trades |-> NoRow] \in [Trades -> Rows]
      BY <2>3
    <3>3. batch \in [Modes -> [Trades -> Rows]]
      BY DEF TrailOK
    <3>4. QED
      BY <3>1, <3>2, <3>3
  <2>5. ASSUME NEW n \in Modes, NEW t \in Trades
        PROVE  batch'[n][t].at <= clock'
    <3>1. batch[n][t].at <= clock /\ 0 <= clock
      BY DEF TrailOK
    <3>2. QED
      BY <2>1, <2>3, <2>4, <3>1
  <2>6. ASSUME NEW n \in Modes, trailTodo'[n] = Idle
        PROVE  trailing'[n] = None /\ \A t \in Trades : batch'[n][t] = NoRow
    BY <2>6 DEF TrailEnd, TrailOK
  <2>7. QED
    BY <2>1, <2>2, <2>4, <2>5, <2>6 DEF TrailOK
<1>2. (WorldOK /\ HitOK /\ ReviewOK /\ CardOK /\ CloseOK)'
  BY DEF TrailEnd, WorldOK, HitOK, ReviewOK, CardOK, CloseOK, Idle,
       marketVars, trailVars, hitVars, reviewVars, cardVars, closeVars
<1>3. QED
  BY <1>1, <1>2

LEMMA THitStart ==
    ASSUME TypeOK, NEW m \in Modes, HitStart(m)
    PROVE  TypeOK'
<1> USE SweepAssumption DEF TypeOK
<1>1. HitOK'
  BY Lists DEF HitStart, HitOK, Open, marketVars, trailVars, hitVars,
       reviewVars, cardVars, closeVars
<1>2. (WorldOK /\ TrailOK /\ ReviewOK /\ CardOK /\ CloseOK)'
  BY DEF HitStart, WorldOK, TrailOK, ReviewOK, CardOK, CloseOK, Idle,
       marketVars, trailVars, hitVars, reviewVars, cardVars, closeVars
<1>3. QED
  BY <1>1, <1>2

LEMMA THitBars ==
    ASSUME TypeOK, NEW m \in Modes, NEW t \in Trades, HitBars(m, t)
    PROVE  TypeOK'
<1> USE SweepAssumption DEF TypeOK
<1>1. HitOK'
  BY Lists DEF HitBars, HitOK, marketVars, trailVars, hitVars, reviewVars,
       cardVars, closeVars
<1>2. (WorldOK /\ TrailOK /\ ReviewOK /\ CardOK /\ CloseOK)'
  BY DEF HitBars, WorldOK, TrailOK, ReviewOK, CardOK, CloseOK, Idle,
       marketVars, trailVars, hitVars, reviewVars, cardVars, closeVars
<1>3. QED
  BY <1>1, <1>2

LEMMA THitStop ==
    ASSUME TypeOK, NEW m \in Modes, HitStop(m)
    PROVE  TypeOK'
<1> USE SweepAssumption DEF TypeOK
<1>1. HitOK'
  BY Lists DEF HitStop, HitOK, marketVars, trailVars, hitVars, reviewVars,
       cardVars, closeVars
<1>2. CloseOK'
  <2>1. cause' = cause \/ (/\ hitting[m] \in Trades
            /\ cause' = [cause EXCEPT ![hitting[m]] = @ \cup {"level"}])
    BY Lists DEF HitStop, HitOK
  <2> DEFINE t == hitting[m]
  <2>2. t \in Trades => cause[t] \cup {"level"} \in SUBSET {"level", "grant"}
    BY DEF CloseOK
  <2>3. cause' \in [Trades -> SUBSET {"level", "grant"}]
    BY <2>1, <2>2 DEF CloseOK
  <2>4. QED
    BY <2>3 DEF HitStop, CloseOK, closeVars
<1>3. (WorldOK /\ TrailOK /\ ReviewOK /\ CardOK)'
  BY DEF HitStop, WorldOK, TrailOK, ReviewOK, CardOK, Idle, marketVars,
       trailVars, hitVars, reviewVars, cardVars, closeVars
<1>4. QED
  BY <1>1, <1>2, <1>3

LEMMA THitEnd ==
    ASSUME TypeOK, NEW m \in Modes, HitEnd(m)
    PROVE  TypeOK'
<1> USE SweepAssumption DEF TypeOK
<1>1. HitOK'
  BY Lists DEF HitEnd, HitOK, marketVars, trailVars, hitVars, reviewVars,
       cardVars, closeVars
<1>2. CloseOK'
  BY Lists DEF HitEnd, CloseOK, Ask, marketVars, trailVars, hitVars,
       reviewVars, cardVars, closeVars
<1>3. (WorldOK /\ TrailOK /\ ReviewOK /\ CardOK)'
  BY DEF HitEnd, WorldOK, TrailOK, ReviewOK, CardOK, Idle, marketVars,
       trailVars, hitVars, reviewVars, cardVars, closeVars
<1>4. QED
  BY <1>1, <1>2, <1>3

LEMMA TCloseStart ==
    ASSUME TypeOK, NEW m \in Modes, NEW t \in Trades, CloseStart(m, t)
    PROVE  TypeOK'
<1> USE SweepAssumption DEF TypeOK
<1>1. CloseOK'
  BY Lists DEF CloseStart, CloseOK, Answered, marketVars, trailVars,
       hitVars, reviewVars, cardVars, closeVars
<1>2. (WorldOK /\ TrailOK /\ HitOK /\ ReviewOK /\ CardOK)'
  BY DEF CloseStart, WorldOK, TrailOK, HitOK, ReviewOK, CardOK, Idle,
       marketVars, trailVars, hitVars, reviewVars, cardVars, closeVars
<1>3. QED
  BY <1>1, <1>2

LEMMA TCloseRefused ==
    ASSUME TypeOK, NEW m \in Modes, NEW t \in Trades, CloseRefused(m, t)
    PROVE  TypeOK'
<1> USE SweepAssumption DEF TypeOK
<1>1. CloseOK'
  BY Lists DEF CloseRefused, CloseOK, Answered, Key, marketVars, trailVars,
       hitVars, reviewVars, cardVars, closeVars
<1>2. (WorldOK /\ TrailOK /\ HitOK /\ ReviewOK /\ CardOK)'
  BY DEF CloseRefused, WorldOK, TrailOK, HitOK, ReviewOK, CardOK, Idle,
       marketVars, trailVars, hitVars, reviewVars, cardVars, closeVars
<1>3. QED
  BY <1>1, <1>2

LEMMA TCloseCommit ==
    ASSUME TypeOK, NEW m \in Modes, CloseCommit(m)
    PROVE  TypeOK'
<1> USE SweepAssumption DEF TypeOK
<1>1. WorldOK'
  BY Lists DEF CloseCommit, WorldOK, marketVars, trailVars, hitVars,
       reviewVars, cardVars, closeVars
<1>2. CloseOK'
  BY Lists DEF CloseCommit, CloseOK, Key, marketVars, trailVars, hitVars,
       reviewVars, cardVars, closeVars
<1>3. (TrailOK /\ HitOK /\ ReviewOK /\ CardOK)'
  BY DEF CloseCommit, TrailOK, HitOK, ReviewOK, CardOK, Idle, marketVars,
       trailVars, hitVars, reviewVars, cardVars, closeVars
<1>4. QED
  BY <1>1, <1>2, <1>3

LEMMA TCloseSwallowed ==
    ASSUME TypeOK, NEW m \in Modes, CloseSwallowed(m)
    PROVE  TypeOK'
<1> USE SweepAssumption DEF TypeOK
<1>1. WorldOK'
  BY Lists DEF CloseSwallowed, WorldOK, marketVars, trailVars, hitVars,
       reviewVars, cardVars, closeVars
<1>2. CloseOK'
  BY Lists DEF CloseSwallowed, CloseOK, Key, marketVars, trailVars,
       hitVars, reviewVars, cardVars, closeVars
<1>3. (TrailOK /\ HitOK /\ ReviewOK /\ CardOK)'
  BY DEF CloseSwallowed, TrailOK, HitOK, ReviewOK, CardOK, Idle,
       marketVars, trailVars, hitVars, reviewVars, cardVars, closeVars
<1>4. QED
  BY <1>1, <1>2, <1>3

LEMMA TCloseFails ==
    ASSUME TypeOK, NEW m \in Modes, CloseFails(m)
    PROVE  TypeOK'
<1> USE SweepAssumption DEF TypeOK
<1>1. WorldOK'
  BY Lists DEF CloseFails, WorldOK, marketVars, trailVars, hitVars,
       reviewVars, cardVars, closeVars
<1>2. CloseOK'
  BY Lists DEF CloseFails, CloseOK, marketVars, trailVars, hitVars,
       reviewVars, cardVars, closeVars
<1>3. (TrailOK /\ HitOK /\ ReviewOK /\ CardOK)'
  BY DEF CloseFails, TrailOK, HitOK, ReviewOK, CardOK, Idle, marketVars,
       trailVars, hitVars, reviewVars, cardVars, closeVars
<1>4. QED
  BY <1>1, <1>2, <1>3

LEMMA TReviewStart ==
    ASSUME TypeOK, NEW m \in Modes, ReviewStart(m)
    PROVE  TypeOK'
<1> USE SweepAssumption DEF TypeOK
<1>1. ReviewOK'
  BY Lists DEF ReviewStart, ReviewOK, Open, marketVars, trailVars, hitVars,
       reviewVars, cardVars, closeVars
<1>2. (WorldOK /\ TrailOK /\ HitOK /\ CardOK /\ CloseOK)'
  BY DEF ReviewStart, WorldOK, TrailOK, HitOK, CardOK, CloseOK, Idle,
       marketVars, trailVars, hitVars, reviewVars, cardVars, closeVars
<1>3. QED
  BY <1>1, <1>2

LEMMA TReviewOne ==
    ASSUME TypeOK, NEW m \in Modes, NEW t \in Trades, ReviewOne(m, t)
    PROVE  TypeOK'
<1> USE SweepAssumption DEF TypeOK
<1>1. ReviewOK'
  BY Lists DEF ReviewOne, ReviewOK, marketVars, trailVars, hitVars,
       reviewVars, cardVars, closeVars
<1>2. (WorldOK /\ TrailOK /\ HitOK /\ CardOK /\ CloseOK)'
  BY DEF ReviewOne, WorldOK, TrailOK, HitOK, CardOK, CloseOK, Idle,
       marketVars, trailVars, hitVars, reviewVars, cardVars, closeVars
<1>3. QED
  BY <1>1, <1>2

LEMMA TAssess ==
    ASSUME TypeOK, NEW m \in Modes, NEW sell \in BOOLEAN, Assess(m, sell)
    PROVE  TypeOK'
<1> USE SweepAssumption DEF TypeOK
<1>1. ReviewOK'
  BY Lists DEF Assess, ReviewOK, marketVars, trailVars, hitVars,
       reviewVars, cardVars, closeVars
<1>2. (WorldOK /\ TrailOK /\ HitOK /\ CardOK /\ CloseOK)'
  BY DEF Assess, WorldOK, TrailOK, HitOK, CardOK, CloseOK, Idle,
       marketVars, trailVars, hitVars, reviewVars, cardVars, closeVars
<1>3. QED
  BY <1>1, <1>2

LEMMA TReviewEnd ==
    ASSUME TypeOK, NEW m \in Modes, ReviewEnd(m)
    PROVE  TypeOK'
<1> USE SweepAssumption DEF TypeOK
<1>1. ReviewOK'
  BY Lists DEF ReviewEnd, ReviewOK, marketVars, trailVars, hitVars,
       reviewVars, cardVars, closeVars
<1>2. CardOK'
  <2>1. requests' = [requests EXCEPT ![m] = alerts[m]]
    BY DEF ReviewEnd
  <2>2. alerts[m] \in SUBSET Trades
    BY DEF ReviewOK
  <2>3. requests' \in [Modes -> SUBSET Trades]
    BY <2>1, <2>2 DEF CardOK
  <2>4. QED
    BY <2>3 DEF ReviewEnd, CardOK
<1>3. (WorldOK /\ TrailOK /\ HitOK /\ CloseOK)'
  BY DEF ReviewEnd, WorldOK, TrailOK, HitOK, CloseOK, Idle, marketVars,
       trailVars, hitVars, reviewVars, cardVars, closeVars
<1>4. QED
  BY <1>1, <1>2, <1>3

LEMMA TInsertCard ==
    ASSUME TypeOK, NEW m \in Modes, NEW t \in Trades, InsertCard(m, t)
    PROVE  TypeOK'
<1> USE SweepAssumption DEF TypeOK
<1>1. CardOK'
  BY Lists DEF InsertCard, CardOK, marketVars, trailVars, hitVars,
       reviewVars, cardVars, closeVars
<1>2. (WorldOK /\ TrailOK /\ HitOK /\ ReviewOK /\ CloseOK)'
  BY DEF InsertCard, WorldOK, TrailOK, HitOK, ReviewOK, CloseOK, Idle,
       marketVars, trailVars, hitVars, reviewVars, cardVars, closeVars
<1>3. QED
  BY <1>1, <1>2

LEMMA TDismiss ==
    ASSUME TypeOK, NEW m \in Modes, NEW t \in Trades, Dismiss(m, t)
    PROVE  TypeOK'
<1> USE SweepAssumption DEF TypeOK
<1>1. CardOK'
  BY Lists DEF Dismiss, Answer, CardOK, marketVars, trailVars, hitVars, reviewVars,
       cardVars, closeVars
<1>2. (WorldOK /\ TrailOK /\ HitOK /\ ReviewOK /\ CloseOK)'
  BY DEF Dismiss, Answer, WorldOK, TrailOK, HitOK, ReviewOK, CloseOK, Idle,
       marketVars, trailVars, hitVars, reviewVars, cardVars, closeVars
<1>3. QED
  BY <1>1, <1>2

LEMMA TGrant ==
    ASSUME TypeOK, NEW m \in Modes, NEW t \in Trades, Grant(m, t)
    PROVE  TypeOK'
<1> USE SweepAssumption DEF TypeOK
<1>1. CardOK'
  BY Lists DEF Grant, Answer, CardOK, marketVars, trailVars, hitVars, reviewVars,
       cardVars, closeVars
<1>2. CloseOK'
  BY Lists DEF Grant, Answer, CloseOK, Ask, marketVars, trailVars, hitVars,
       reviewVars, cardVars, closeVars
<1>3. (WorldOK /\ TrailOK /\ HitOK /\ ReviewOK)'
  BY DEF Grant, Answer, WorldOK, TrailOK, HitOK, ReviewOK, Idle, marketVars,
       trailVars, hitVars, reviewVars, cardVars, closeVars
<1>4. QED
  BY <1>1, <1>2, <1>3

LEMMA TGrantMcp ==
    ASSUME TypeOK, NEW m \in Modes, NEW t \in Trades, GrantMcp(m, t)
    PROVE  TypeOK'
<1> USE SweepAssumption DEF TypeOK
<1>1. CardOK'
  BY Lists DEF GrantMcp, Answer, CardOK, marketVars, trailVars, hitVars,
       reviewVars, cardVars, closeVars
<1>2. (WorldOK /\ TrailOK /\ HitOK /\ ReviewOK /\ CloseOK)'
  BY DEF GrantMcp, Answer, WorldOK, TrailOK, HitOK, ReviewOK, CloseOK, Idle,
       marketVars, trailVars, hitVars, reviewVars, cardVars, closeVars
<1>3. QED
  BY <1>1, <1>2

LEMMA TSync ==
    ASSUME TypeOK, NEW t \in Trades, NEW bar \in UNION Range(Bars), Sync(t,
         bar)
    PROVE  TypeOK'
<1> USE SweepAssumption DEF TypeOK
<1>1. WorldOK'
  <2>1. bar \in UNION Range(Bars) /\ Len(Bars) \in Nat
    OBVIOUS
  <2>2. bars'[t] = Append(bars[t], bar) /\ Len(bars[t]) < Len(Bars)
    BY DEF Sync, WorldOK
  <2>3. bars'[t] \in Seq(UNION Range(Bars)) /\ Len(bars'[t]) <= Len(Bars)
    BY <2>1, <2>2 DEF WorldOK
  <2>4. QED
    BY <2>3 DEF Sync, WorldOK, marketVars
<1>2. (TrailOK /\ HitOK /\ ReviewOK /\ CardOK /\ CloseOK)'
  BY DEF Sync, TrailOK, HitOK, ReviewOK, CardOK, CloseOK, Idle, marketVars,
       trailVars, hitVars, reviewVars, cardVars, closeVars
<1>3. QED
  BY <1>1, <1>2

LEMMA TFill ==
    ASSUME TypeOK, NEW t \in Trades, Fill(t)
    PROVE  TypeOK'
<1> USE SweepAssumption DEF TypeOK
<1>1. WorldOK'
  BY Lists DEF Fill, WorldOK, marketVars, trailVars, hitVars, reviewVars,
       cardVars, closeVars
<1>2. (TrailOK /\ HitOK /\ ReviewOK /\ CardOK /\ CloseOK)'
  BY DEF Fill, TrailOK, HitOK, ReviewOK, CardOK, CloseOK, Idle, marketVars,
       trailVars, hitVars, reviewVars, cardVars, closeVars
<1>3. QED
  BY <1>1, <1>2

LEMMA TSellByHand ==
    ASSUME TypeOK, NEW t \in Trades, SellByHand(t)
    PROVE  TypeOK'
<1> USE SweepAssumption DEF TypeOK
<1>1. WorldOK'
  BY Lists DEF SellByHand, WorldOK, marketVars, trailVars, hitVars,
       reviewVars, cardVars, closeVars
<1>2. (TrailOK /\ HitOK /\ ReviewOK /\ CardOK /\ CloseOK)'
  BY DEF SellByHand, TrailOK, HitOK, ReviewOK, CardOK, CloseOK, Idle,
       marketVars, trailVars, hitVars, reviewVars, cardVars, closeVars
<1>3. QED
  BY <1>1, <1>2

LEMMA TTrailSkips ==
    ASSUME TypeOK, NEW m \in Modes, TrailSkips(m)
    PROVE  TypeOK'
<1> USE SweepAssumption DEF TypeOK
<1>1. WorldOK'
  BY Lists DEF TrailSkips, WorldOK, Fault, marketVars, trailVars, hitVars,
       reviewVars, cardVars, closeVars
<1>2. TrailOK'
  <2>1. UNCHANGED <<stop, trailTodo, batch, clock>>
    BY DEF TrailSkips
  <2>2. /\ trailing' \in [Modes -> Trades \cup {None}]
        /\ trailFrom' \in [Modes -> Int]
        /\ raced' \in [Modes -> SUBSET Trades]
    BY DEF TrailSkips, TrailOK
  <2>3. \A n \in Modes : trailing[n] = None => trailing'[n] = None
    BY DEF TrailSkips, TrailOK
  <2>4. QED
    BY <2>1, <2>2, <2>3 DEF TrailOK
<1>3. (HitOK /\ ReviewOK /\ CardOK /\ CloseOK)'
  BY DEF TrailSkips, Fault, HitOK, ReviewOK, CardOK, CloseOK, Idle,
       marketVars, trailVars, hitVars, reviewVars, cardVars, closeVars
<1>4. QED
  BY <1>1, <1>2, <1>3

LEMMA THitSkips ==
    ASSUME TypeOK, NEW m \in Modes, HitSkips(m)
    PROVE  TypeOK'
<1> USE SweepAssumption DEF TypeOK
<1>1. WorldOK'
  BY Lists DEF HitSkips, WorldOK, Fault, marketVars, trailVars, hitVars,
       reviewVars, cardVars, closeVars
<1>2. HitOK'
  BY Lists DEF HitSkips, HitOK, marketVars, trailVars, hitVars, reviewVars,
       cardVars, closeVars
<1>3. (TrailOK /\ ReviewOK /\ CardOK /\ CloseOK)'
  BY DEF HitSkips, Fault, TrailOK, ReviewOK, CardOK, CloseOK, Idle,
       marketVars, trailVars, hitVars, reviewVars, cardVars, closeVars
<1>4. QED
  BY <1>1, <1>2, <1>3

LEMMA TTrailFails ==
    ASSUME TypeOK, NEW m \in Modes, TrailFails(m)
    PROVE  TypeOK'
<1> USE SweepAssumption DEF TypeOK
<1>1. WorldOK'
  BY Lists DEF TrailFails, WorldOK, Fault, marketVars, trailVars, hitVars,
       reviewVars, cardVars, closeVars
<1>2. TrailOK'
  BY Lists DEF TrailFails, TrailOK, TrailReset, Rows, NoRow, marketVars,
       trailVars, hitVars, reviewVars, cardVars, closeVars
<1>3. (HitOK /\ ReviewOK /\ CardOK /\ CloseOK)'
  BY DEF TrailFails, Fault, HitOK, ReviewOK, CardOK, CloseOK, Idle,
       marketVars, trailVars, hitVars, reviewVars, cardVars, closeVars
<1>4. QED
  BY <1>1, <1>2, <1>3

LEMMA THitFails ==
    ASSUME TypeOK, NEW m \in Modes, HitFails(m)
    PROVE  TypeOK'
<1> USE SweepAssumption DEF TypeOK
<1>1. WorldOK'
  BY Lists DEF HitFails, WorldOK, Fault, marketVars, trailVars, hitVars,
       reviewVars, cardVars, closeVars
<1>2. HitOK'
  BY Lists DEF HitFails, HitOK, HitReset, marketVars, trailVars, hitVars,
       reviewVars, cardVars, closeVars
<1>3. (TrailOK /\ ReviewOK /\ CardOK /\ CloseOK)'
  BY DEF HitFails, Fault, TrailOK, ReviewOK, CardOK, CloseOK, Idle,
       marketVars, trailVars, hitVars, reviewVars, cardVars, closeVars
<1>4. QED
  BY <1>1, <1>2, <1>3

LEMMA TReviewFails ==
    ASSUME TypeOK, NEW m \in Modes, ReviewFails(m)
    PROVE  TypeOK'
<1> USE SweepAssumption DEF TypeOK
<1>1. WorldOK'
  BY Lists DEF ReviewFails, WorldOK, Fault, marketVars, trailVars, hitVars,
       reviewVars, cardVars, closeVars
<1>2. ReviewOK'
  BY Lists DEF ReviewFails, ReviewOK, ReviewReset, marketVars, trailVars,
       hitVars, reviewVars, cardVars, closeVars
<1>3. (TrailOK /\ HitOK /\ CardOK /\ CloseOK)'
  BY DEF ReviewFails, Fault, TrailOK, HitOK, CardOK, CloseOK, Idle,
       marketVars, trailVars, hitVars, reviewVars, cardVars, closeVars
<1>4. QED
  BY <1>1, <1>2, <1>3

LEMMA TInsertFails ==
    ASSUME TypeOK, NEW m \in Modes, NEW t \in Trades, InsertFails(m, t)
    PROVE  TypeOK'
<1> USE SweepAssumption DEF TypeOK
<1>1. WorldOK'
  BY Lists DEF InsertFails, WorldOK, Fault, marketVars, trailVars, hitVars,
       reviewVars, cardVars, closeVars
<1>2. CardOK'
  BY Lists DEF InsertFails, CardOK, marketVars, trailVars, hitVars,
       reviewVars, cardVars, closeVars
<1>3. (TrailOK /\ HitOK /\ ReviewOK /\ CloseOK)'
  BY DEF InsertFails, Fault, TrailOK, HitOK, ReviewOK, CloseOK, Idle,
       marketVars, trailVars, hitVars, reviewVars, cardVars, closeVars
<1>4. QED
  BY <1>1, <1>2, <1>3

LEMMA TCrash ==
    ASSUME TypeOK, NEW m \in Modes, Crash(m)
    PROVE  TypeOK'
<1> USE SweepAssumption DEF TypeOK
<1>1. WorldOK'
  BY Lists DEF Crash, WorldOK, Fault, marketVars, trailVars, hitVars,
       reviewVars, cardVars, closeVars
<1>2. TrailOK'
  BY Lists DEF Crash, TrailOK, TrailReset, Rows, NoRow, marketVars,
       trailVars, hitVars, reviewVars, cardVars, closeVars
<1>3. HitOK'
  BY Lists DEF Crash, HitOK, HitReset, marketVars, trailVars, hitVars,
       reviewVars, cardVars, closeVars
<1>4. ReviewOK'
  BY Lists DEF Crash, ReviewOK, ReviewReset, marketVars, trailVars,
       hitVars, reviewVars, cardVars, closeVars
<1>5. CardOK'
  BY Lists DEF Crash, CardOK, marketVars, trailVars, hitVars, reviewVars,
       cardVars, closeVars
<1>6. CloseOK'
  BY Lists DEF Crash, CloseOK, marketVars, trailVars, hitVars, reviewVars,
       cardVars, closeVars
<1>7. QED
  BY <1>1, <1>2, <1>3, <1>4, <1>5, <1>6

LEMMA TStep == TypeOK /\ [Next]_vars => TypeOK'
<1> SUFFICES ASSUME TypeOK, [Next]_vars PROVE TypeOK'
  OBVIOUS
<1>0. TypeOK
  OBVIOUS
<1>1. ASSUME NEW m \in Modes, TrailStart(m) PROVE TypeOK'
  BY <1>1, <1>0, TTrailStart
<1>2. ASSUME NEW m \in Modes, NEW t \in Trades, TrailRead(m, t) PROVE
     TypeOK'
  BY <1>2, <1>0, TTrailRead
<1>3. ASSUME NEW m \in Modes, TrailOne(m) PROVE TypeOK'
  BY <1>3, <1>0, TTrailOne
<1>4. ASSUME NEW m \in Modes, TrailEnd(m) PROVE TypeOK'
  BY <1>4, <1>0, TTrailEnd
<1>5. ASSUME NEW m \in Modes, HitStart(m) PROVE TypeOK'
  BY <1>5, <1>0, THitStart
<1>6. ASSUME NEW m \in Modes, NEW t \in Trades, HitBars(m, t) PROVE TypeOK'
  BY <1>6, <1>0, THitBars
<1>7. ASSUME NEW m \in Modes, HitStop(m) PROVE TypeOK'
  BY <1>7, <1>0, THitStop
<1>8. ASSUME NEW m \in Modes, HitEnd(m) PROVE TypeOK'
  BY <1>8, <1>0, THitEnd
<1>9. ASSUME NEW m \in Modes, NEW t \in Trades, CloseStart(m, t) PROVE
     TypeOK'
  BY <1>9, <1>0, TCloseStart
<1>10. ASSUME NEW m \in Modes, NEW t \in Trades, CloseRefused(m, t) PROVE
     TypeOK'
  BY <1>10, <1>0, TCloseRefused
<1>11. ASSUME NEW m \in Modes, CloseCommit(m) PROVE TypeOK'
  BY <1>11, <1>0, TCloseCommit
<1>12. ASSUME NEW m \in Modes, CloseSwallowed(m) PROVE TypeOK'
  BY <1>12, <1>0, TCloseSwallowed
<1>13. ASSUME NEW m \in Modes, CloseFails(m) PROVE TypeOK'
  BY <1>13, <1>0, TCloseFails
<1>14. ASSUME NEW m \in Modes, ReviewStart(m) PROVE TypeOK'
  BY <1>14, <1>0, TReviewStart
<1>15. ASSUME NEW m \in Modes, NEW t \in Trades, ReviewOne(m, t) PROVE
     TypeOK'
  BY <1>15, <1>0, TReviewOne
<1>16. ASSUME NEW m \in Modes, NEW sell \in BOOLEAN, Assess(m, sell) PROVE
     TypeOK'
  BY <1>16, <1>0, TAssess
<1>17. ASSUME NEW m \in Modes, ReviewEnd(m) PROVE TypeOK'
  BY <1>17, <1>0, TReviewEnd
<1>18. ASSUME NEW m \in Modes, NEW t \in Trades, InsertCard(m, t) PROVE
     TypeOK'
  BY <1>18, <1>0, TInsertCard
<1>19. ASSUME NEW m \in Modes, NEW t \in Trades, Dismiss(m, t) PROVE TypeOK'
  BY <1>19, <1>0, TDismiss
<1>20. ASSUME NEW m \in Modes, NEW t \in Trades, Grant(m, t) PROVE TypeOK'
  BY <1>20, <1>0, TGrant
<1>21. ASSUME NEW t \in Trades, NEW bar \in UNION Range(Bars), Sync(t, bar)
     PROVE TypeOK'
  BY <1>21, <1>0, TSync
<1>22. ASSUME NEW t \in Trades, Fill(t) PROVE TypeOK'
  BY <1>22, <1>0, TFill
<1>23. ASSUME NEW t \in Trades, SellByHand(t) PROVE TypeOK'
  BY <1>23, <1>0, TSellByHand
<1>24. ASSUME NEW m \in Modes, TrailSkips(m) PROVE TypeOK'
  BY <1>24, <1>0, TTrailSkips
<1>25. ASSUME NEW m \in Modes, HitSkips(m) PROVE TypeOK'
  BY <1>25, <1>0, THitSkips
<1>26. ASSUME NEW m \in Modes, TrailFails(m) PROVE TypeOK'
  BY <1>26, <1>0, TTrailFails
<1>27. ASSUME NEW m \in Modes, HitFails(m) PROVE TypeOK'
  BY <1>27, <1>0, THitFails
<1>28. ASSUME NEW m \in Modes, ReviewFails(m) PROVE TypeOK'
  BY <1>28, <1>0, TReviewFails
<1>29. ASSUME NEW m \in Modes, NEW t \in Trades, InsertFails(m, t) PROVE
     TypeOK'
  BY <1>29, <1>0, TInsertFails
<1>30. ASSUME NEW m \in Modes, Crash(m) PROVE TypeOK'
  BY <1>30, <1>0, TCrash
<1>31. ASSUME NEW m \in Modes, NEW t \in Trades, GrantMcp(m, t)
     PROVE TypeOK'
  BY <1>31, <1>0, TGrantMcp
<1>32. CASE UNCHANGED vars
  BY <1>32, <1>0 DEF TypeOK, WorldOK, TrailOK, HitOK, ReviewOK, CardOK,
       CloseOK, vars, marketVars, trailVars, hitVars, reviewVars, cardVars,
       closeVars
<1>33. QED
  BY <1>1, <1>2, <1>3, <1>4, <1>5, <1>6, <1>7, <1>8, <1>9, <1>10, <1>11,
       <1>12, <1>13, <1>14, <1>15, <1>16, <1>17, <1>18, <1>19, <1>20,
       <1>21, <1>22, <1>23, <1>24, <1>25, <1>26, <1>27, <1>28, <1>29,
       <1>30, <1>31, <1>32 DEF Next, TrailNext, HitNext, CloseNext,
       ReviewNext, FaultNext, WorldNext

\* For any number of trades, daemons and faults, every variable keeps its type
\* and a tick works on a trade only while it runs.
THEOREM TypeCorrect == Spec => []TypeOK
<1>1. QED
  BY TInit, TStep, PTL DEF Spec

-----------------------------------------------------------------------------
(* Every exit has a cause.                                                 *)

\* The cause is recorded before the request, and the request before the exit.
Causes ==
    /\ ExitHasCause
    /\ \A m \in Modes : \A t \in Trades :
         asked[m][t] > 0 \/ t \in hits[m] => cause[t] # {}

\* The other actions leave what Causes is about alone.
LEMMA CausesRest ==
    ASSUME TypeOK, [Next]_vars
    PROVE  \/ UNCHANGED <<trade, cause, asked, hits, closing>>
           \/ \E m \in Modes : HitStop(m)
           \/ \E m \in Modes : HitEnd(m)
           \/ \E m \in Modes : \E t \in Trades : CloseStart(m, t)
           \/ \E m \in Modes : \E t \in Trades : CloseRefused(m, t)
           \/ \E m \in Modes : CloseCommit(m)
           \/ \E m \in Modes : CloseSwallowed(m)
           \/ \E m \in Modes : CloseFails(m)
           \/ \E m \in Modes : \E t \in Trades : Grant(m, t)
           \/ \E t \in Trades : Fill(t)
           \/ \E m \in Modes : HitFails(m)
           \/ \E m \in Modes : Crash(m)
<1> DEFINE Goal == UNCHANGED <<trade, cause, asked, hits, closing>>
<1>1. ASSUME NEW m \in Modes, TrailStart(m) PROVE Goal
  BY <1>1 DEF TrailStart, marketVars, trailVars, hitVars, reviewVars,
       cardVars, closeVars
<1>2. ASSUME NEW m \in Modes, NEW t \in Trades, TrailRead(m, t) PROVE Goal
  BY <1>2 DEF TrailRead, marketVars, trailVars, hitVars, reviewVars,
       cardVars, closeVars
<1>3. ASSUME NEW m \in Modes, TrailOne(m) PROVE Goal
  BY <1>3 DEF TrailOne, marketVars, trailVars, hitVars, reviewVars,
       cardVars, closeVars
<1>4. ASSUME NEW m \in Modes, TrailEnd(m) PROVE Goal
  BY <1>4 DEF TrailEnd, marketVars, trailVars, hitVars, reviewVars,
       cardVars, closeVars
<1>5. ASSUME NEW m \in Modes, HitStart(m) PROVE Goal
  BY <1>5 DEF HitStart, marketVars, trailVars, hitVars, reviewVars,
       cardVars, closeVars
<1>6. ASSUME NEW m \in Modes, NEW t \in Trades, HitBars(m, t) PROVE Goal
  BY <1>6 DEF HitBars, marketVars, trailVars, hitVars, reviewVars,
       cardVars, closeVars
<1>7. ASSUME NEW m \in Modes, ReviewStart(m) PROVE Goal
  BY <1>7 DEF ReviewStart, marketVars, trailVars, hitVars, reviewVars,
       cardVars, closeVars
<1>8. ASSUME NEW m \in Modes, NEW t \in Trades, ReviewOne(m, t) PROVE Goal
  BY <1>8 DEF ReviewOne, marketVars, trailVars, hitVars, reviewVars,
       cardVars, closeVars
<1>9. ASSUME NEW m \in Modes, NEW sell \in BOOLEAN, Assess(m, sell) PROVE
     Goal
  BY <1>9 DEF Assess, marketVars, trailVars, hitVars, reviewVars, cardVars,
       closeVars
<1>10. ASSUME NEW m \in Modes, ReviewEnd(m) PROVE Goal
  BY <1>10 DEF ReviewEnd, marketVars, trailVars, hitVars, reviewVars,
       cardVars, closeVars
<1>11. ASSUME NEW m \in Modes, NEW t \in Trades, InsertCard(m, t) PROVE
     Goal
  BY <1>11 DEF InsertCard, marketVars, trailVars, hitVars, reviewVars,
       cardVars, closeVars
<1>12. ASSUME NEW m \in Modes, NEW t \in Trades, Dismiss(m, t) PROVE Goal
  BY <1>12 DEF Dismiss, marketVars, trailVars, hitVars, reviewVars,
       cardVars, closeVars
<1>13. ASSUME NEW t \in Trades, NEW bar \in UNION Range(Bars), Sync(t, bar)
     PROVE Goal
  BY <1>13 DEF Sync, marketVars, trailVars, hitVars, reviewVars, cardVars,
       closeVars
<1>14. ASSUME NEW t \in Trades, SellByHand(t) PROVE Goal
  BY <1>14 DEF SellByHand, marketVars, trailVars, hitVars, reviewVars,
       cardVars, closeVars
<1>15. ASSUME NEW m \in Modes, TrailSkips(m) PROVE Goal
  BY <1>15 DEF TrailSkips, marketVars, trailVars, hitVars, reviewVars,
       cardVars, closeVars
<1>16. ASSUME NEW m \in Modes, HitSkips(m) PROVE Goal
  BY <1>16 DEF HitSkips, marketVars, trailVars, hitVars, reviewVars,
       cardVars, closeVars
<1>17. ASSUME NEW m \in Modes, TrailFails(m) PROVE Goal
  BY <1>17 DEF TrailFails, TrailReset, marketVars, trailVars, hitVars,
       reviewVars, cardVars, closeVars
<1>18. ASSUME NEW m \in Modes, ReviewFails(m) PROVE Goal
  BY <1>18 DEF ReviewFails, ReviewReset, marketVars, trailVars, hitVars,
       reviewVars, cardVars, closeVars
<1>19. ASSUME NEW m \in Modes, NEW t \in Trades, InsertFails(m, t) PROVE
     Goal
  BY <1>19 DEF InsertFails, marketVars, trailVars, hitVars, reviewVars,
       cardVars, closeVars
<1>20. ASSUME NEW m \in Modes, NEW t \in Trades, GrantMcp(m, t) PROVE Goal
  BY <1>20 DEF GrantMcp, marketVars, trailVars, hitVars, reviewVars,
       cardVars, closeVars
<1>21. CASE UNCHANGED vars
  BY <1>21 DEF vars, marketVars, trailVars, hitVars, reviewVars, cardVars, closeVars
<1>22. QED
  BY <1>1, <1>2, <1>3, <1>4, <1>5, <1>6, <1>7, <1>8, <1>9, <1>10, <1>11,
       <1>12, <1>13, <1>14, <1>15, <1>16, <1>17, <1>18, <1>19, <1>20, <1>21 DEF
       Next, TrailNext, HitNext, CloseNext, ReviewNext, FaultNext,
       WorldNext

LEMMA CausesStep == TypeOK /\ Causes /\ [Next]_vars => Causes'
<1> SUFFICES ASSUME TypeOK, Causes, [Next]_vars PROVE Causes'
  OBVIOUS
<1> USE SweepAssumption
<1>0. /\ asked \in [Modes -> [Trades -> Nat]]
      /\ closing \in [Modes -> Trades \cup {None}]
      /\ cause \in [Trades -> SUBSET {"level", "grant"}]
      /\ hits \in [Modes -> SUBSET Trades]
      /\ trade \in [Trades -> {"open", "closing", "closed"}]
  BY DEF TypeOK, WorldOK, HitOK, CloseOK
<1>1. ASSUME NEW m \in Modes, HitStop(m) PROVE Causes'
  <2> DEFINE t == hitting[m]
  <2>1. t \in Trades \cup {None} /\ cause \in [Trades -> SUBSET {"level", "grant"}]
        /\ hits \in [Modes -> SUBSET Trades]
    BY DEF TypeOK, HitOK, CloseOK
  <2>2. CASE UNCHANGED <<hits, cause>>
    BY <1>1, <2>2 DEF HitStop, Causes, ExitHasCause, closeVars
  <2>3. CASE /\ hits' = [hits EXCEPT ![m] = @ \cup {t}]
             /\ cause' = [cause EXCEPT ![t] = @ \cup {"level"}]
    <3>0. t \in Trades
      BY <1>1, <2>1 DEF HitStop
    <3>1. \A u \in Trades : cause[u] # {} => cause'[u] # {}
      BY <2>1, <2>3, <3>0
    <3>2. cause'[t] # {}
      BY <2>1, <2>3, <3>0
    <3>3. \A n \in Modes : \A u \in Trades :
             u \in hits'[n] => u \in hits[n] \/ u = t
      BY <2>1, <2>3
    <3>4. UNCHANGED <<trade, asked, closing>>
      BY <1>1 DEF HitStop, closeVars
    <3>5. \A n \in Modes : closing[n] # None => closing[n] \in Trades
      BY DEF TypeOK, CloseOK
    <3>6. QED
      BY <3>1, <3>2, <3>3, <3>4, <3>5 DEF Causes, ExitHasCause
  <2>4. QED
    BY <1>1, <2>2, <2>3 DEF HitStop
<1>2. ASSUME NEW m \in Modes, HitEnd(m) PROVE Causes'
  BY <1>0, <1>2 DEF HitEnd, Ask, Causes, ExitHasCause, marketVars, trailVars,
     hitVars, reviewVars, cardVars, closeVars
<1>3. ASSUME NEW m \in Modes, NEW t \in Trades, CloseStart(m, t) PROVE Causes'
  BY <1>0, <1>3 DEF CloseStart, Answered, Causes, ExitHasCause, marketVars,
     trailVars, hitVars, reviewVars, cardVars, closeVars
<1>4. ASSUME NEW m \in Modes, NEW t \in Trades, CloseRefused(m, t) PROVE Causes'
  BY <1>0, <1>4 DEF CloseRefused, Answered, Key, Causes, ExitHasCause,
     marketVars, trailVars, hitVars, reviewVars, cardVars, closeVars
<1>5. ASSUME NEW m \in Modes, CloseCommit(m) PROVE Causes'
  BY <1>0, <1>5 DEF CloseCommit, Key, Causes, ExitHasCause, marketVars,
     trailVars, hitVars, reviewVars, cardVars, closeVars
<1>6. ASSUME NEW m \in Modes, CloseSwallowed(m) PROVE Causes'
  BY <1>0, <1>6 DEF CloseSwallowed, Key, Causes, ExitHasCause, marketVars,
     trailVars, hitVars, reviewVars, cardVars, closeVars
<1>7. ASSUME NEW m \in Modes, CloseFails(m) PROVE Causes'
  BY <1>0, <1>7 DEF CloseFails, Causes, ExitHasCause, marketVars, trailVars,
     hitVars, reviewVars, cardVars, closeVars
<1>8. ASSUME NEW m \in Modes, NEW t \in Trades, Grant(m, t) PROVE Causes'
  BY <1>0, <1>8 DEF Grant, Ask, Causes, ExitHasCause, marketVars, trailVars,
     hitVars, reviewVars, cardVars, closeVars
<1>9. ASSUME NEW t \in Trades, Fill(t) PROVE Causes'
  BY <1>0, <1>9 DEF Fill, Causes, ExitHasCause, marketVars, trailVars,
     hitVars, reviewVars, cardVars, closeVars
<1>10. ASSUME NEW m \in Modes, HitFails(m) PROVE Causes'
  BY <1>0, <1>10 DEF HitFails, HitReset, Causes, ExitHasCause, marketVars,
     trailVars, hitVars, reviewVars, cardVars, closeVars
<1>11. ASSUME NEW m \in Modes, Crash(m) PROVE Causes'
  BY <1>0, <1>11 DEF Crash, HitReset, Causes, ExitHasCause, marketVars,
     trailVars, hitVars, reviewVars, cardVars, closeVars
<1>12. CASE UNCHANGED <<trade, cause, asked, hits, closing>>
  BY <1>12 DEF Causes, ExitHasCause
<1>13. QED
  BY CausesRest, <1>1, <1>2, <1>3, <1>4, <1>5, <1>6, <1>7, <1>8, <1>9,
       <1>10, <1>11, <1>12

\* Whatever the market, the advisor and the faults do, a position is sold only
\* after a level of it was hit or a human granted its card.
THEOREM SoldForCause == Spec => []ExitHasCause
<1>1. Init => Causes
  BY SweepAssumption DEF Init, Causes, ExitHasCause
<1>2. Causes => ExitHasCause
  BY DEF Causes
<1>3. QED
  BY <1>1, <1>2, CausesStep, TypeCorrect, PTL DEF Spec

-----------------------------------------------------------------------------
(* The ratchet.  A tick computes against the stop it read, and that is the *)
(* stop in force unless another daemon moved it in between.                *)

\* What a tick has read and written for a trade is at least the stop in force,
\* unless it was raced, and at least the proposal's stop in any case; a tick
\* reads a trade once.
Ratchet ==
    /\ \A t \in Trades : stop[t].level >= ProposalStop[t]
    /\ \A m \in Modes :
         /\ \A t \in trailTodo[m] \ Idle : batch[m][t] = NoRow /\ t # trailing[m]
         /\ trailing[m] # None =>
              /\ trailFrom[m] >= ProposalStop[trailing[m]]
              /\ trailing[m] \notin raced[m] => trailFrom[m] = stop[trailing[m]].level
         /\ \A t \in Trades : batch[m][t].at > 0 =>
              /\ batch[m][t].level >= ProposalStop[t]
              /\ t \notin raced[m] => batch[m][t].level >= stop[t].level

\* The other actions leave what Ratchet is about alone.
LEMMA RatchetRest ==
    ASSUME TypeOK, [Next]_vars
    PROVE  \/ UNCHANGED <<stop, trailTodo, trailing, trailFrom, batch, raced>>
           \/ \E m \in Modes : TrailStart(m)
           \/ \E m \in Modes : \E t \in Trades : TrailRead(m, t)
           \/ \E m \in Modes : TrailOne(m)
           \/ \E m \in Modes : TrailEnd(m)
           \/ \E m \in Modes : TrailSkips(m)
           \/ \E m \in Modes : TrailFails(m)
           \/ \E m \in Modes : Crash(m)
<1> DEFINE Goal == UNCHANGED <<stop, trailTodo, trailing, trailFrom, batch, raced>>
<1>1. ASSUME NEW m \in Modes, HitStart(m) PROVE Goal
  BY <1>1 DEF HitStart, marketVars, trailVars, hitVars, reviewVars,
       cardVars, closeVars
<1>2. ASSUME NEW m \in Modes, NEW t \in Trades, HitBars(m, t) PROVE Goal
  BY <1>2 DEF HitBars, marketVars, trailVars, hitVars, reviewVars,
       cardVars, closeVars
<1>3. ASSUME NEW m \in Modes, HitStop(m) PROVE Goal
  BY <1>3 DEF HitStop, marketVars, trailVars, hitVars, reviewVars,
       cardVars, closeVars
<1>4. ASSUME NEW m \in Modes, HitEnd(m) PROVE Goal
  BY <1>4 DEF HitEnd, marketVars, trailVars, hitVars, reviewVars, cardVars,
       closeVars
<1>5. ASSUME NEW m \in Modes, NEW t \in Trades, CloseStart(m, t) PROVE Goal
  BY <1>5 DEF CloseStart, marketVars, trailVars, hitVars, reviewVars,
       cardVars, closeVars
<1>6. ASSUME NEW m \in Modes, NEW t \in Trades, CloseRefused(m, t) PROVE
     Goal
  BY <1>6 DEF CloseRefused, marketVars, trailVars, hitVars, reviewVars,
       cardVars, closeVars
<1>7. ASSUME NEW m \in Modes, CloseCommit(m) PROVE Goal
  BY <1>7 DEF CloseCommit, marketVars, trailVars, hitVars, reviewVars,
       cardVars, closeVars
<1>8. ASSUME NEW m \in Modes, CloseSwallowed(m) PROVE Goal
  BY <1>8 DEF CloseSwallowed, marketVars, trailVars, hitVars, reviewVars,
       cardVars, closeVars
<1>9. ASSUME NEW m \in Modes, CloseFails(m) PROVE Goal
  BY <1>9 DEF CloseFails, marketVars, trailVars, hitVars, reviewVars,
       cardVars, closeVars
<1>10. ASSUME NEW m \in Modes, ReviewStart(m) PROVE Goal
  BY <1>10 DEF ReviewStart, marketVars, trailVars, hitVars, reviewVars,
       cardVars, closeVars
<1>11. ASSUME NEW m \in Modes, NEW t \in Trades, ReviewOne(m, t) PROVE Goal
  BY <1>11 DEF ReviewOne, marketVars, trailVars, hitVars, reviewVars,
       cardVars, closeVars
<1>12. ASSUME NEW m \in Modes, NEW sell \in BOOLEAN, Assess(m, sell) PROVE
     Goal
  BY <1>12 DEF Assess, marketVars, trailVars, hitVars, reviewVars,
       cardVars, closeVars
<1>13. ASSUME NEW m \in Modes, ReviewEnd(m) PROVE Goal
  BY <1>13 DEF ReviewEnd, marketVars, trailVars, hitVars, reviewVars,
       cardVars, closeVars
<1>14. ASSUME NEW m \in Modes, NEW t \in Trades, InsertCard(m, t) PROVE
     Goal
  BY <1>14 DEF InsertCard, marketVars, trailVars, hitVars, reviewVars,
       cardVars, closeVars
<1>15. ASSUME NEW m \in Modes, NEW t \in Trades, Dismiss(m, t) PROVE Goal
  BY <1>15 DEF Dismiss, marketVars, trailVars, hitVars, reviewVars,
       cardVars, closeVars
<1>16. ASSUME NEW m \in Modes, NEW t \in Trades, Grant(m, t) PROVE Goal
  BY <1>16 DEF Grant, marketVars, trailVars, hitVars, reviewVars, cardVars,
       closeVars
<1>17. ASSUME NEW t \in Trades, NEW bar \in UNION Range(Bars), Sync(t, bar)
     PROVE Goal
  BY <1>17 DEF Sync, marketVars, trailVars, hitVars, reviewVars, cardVars,
       closeVars
<1>18. ASSUME NEW t \in Trades, Fill(t) PROVE Goal
  BY <1>18 DEF Fill, marketVars, trailVars, hitVars, reviewVars, cardVars,
       closeVars
<1>19. ASSUME NEW t \in Trades, SellByHand(t) PROVE Goal
  BY <1>19 DEF SellByHand, marketVars, trailVars, hitVars, reviewVars,
       cardVars, closeVars
<1>20. ASSUME NEW m \in Modes, HitSkips(m) PROVE Goal
  BY <1>20 DEF HitSkips, marketVars, trailVars, hitVars, reviewVars,
       cardVars, closeVars
<1>21. ASSUME NEW m \in Modes, HitFails(m) PROVE Goal
  BY <1>21 DEF HitFails, HitReset, marketVars, trailVars, hitVars,
       reviewVars, cardVars, closeVars
<1>22. ASSUME NEW m \in Modes, ReviewFails(m) PROVE Goal
  BY <1>22 DEF ReviewFails, ReviewReset, marketVars, trailVars, hitVars,
       reviewVars, cardVars, closeVars
<1>23. ASSUME NEW m \in Modes, NEW t \in Trades, InsertFails(m, t) PROVE
     Goal
  BY <1>23 DEF InsertFails, marketVars, trailVars, hitVars, reviewVars,
       cardVars, closeVars
<1>24. ASSUME NEW m \in Modes, NEW t \in Trades, GrantMcp(m, t) PROVE Goal
  BY <1>24 DEF GrantMcp, marketVars, trailVars, hitVars, reviewVars,
       cardVars, closeVars
<1>25. CASE UNCHANGED vars
  BY <1>25 DEF vars, marketVars, trailVars, hitVars, reviewVars, cardVars, closeVars
<1>26. QED
  BY <1>1, <1>2, <1>3, <1>4, <1>5, <1>6, <1>7, <1>8, <1>9, <1>10, <1>11,
       <1>12, <1>13, <1>14, <1>15, <1>16, <1>17, <1>18, <1>19, <1>20,
       <1>21, <1>22, <1>23, <1>24, <1>25 DEF Next, TrailNext, HitNext, CloseNext,
       ReviewNext, FaultNext, WorldNext

\* The step the ratchet is about.
Kept == \A t \in Trades :
    /\ stop'[t].level >= ProposalStop[t]
    /\ stop'[t].level < stop[t].level => \E m \in Modes : t \in raced[m]

LEMMA RatchetStart ==
    ASSUME TypeOK, Ratchet, NEW m \in Modes, TrailStart(m)
    PROVE  Ratchet'
<1> USE Lists DEF TypeOK, TrailOK
<1>1. /\ trailing[m] = None /\ \A t \in Trades : batch[m][t] = NoRow
      /\ UNCHANGED <<stop, trailing, trailFrom, batch, raced>>
      /\ trailTodo' = [trailTodo EXCEPT ![m] = Open]
  BY DEF TrailStart
<1>2. \A t \in Open : t \in Trades /\ t # None
  BY DEF Open
<1>3. QED
  BY <1>1, <1>2 DEF Ratchet

LEMMA RatchetRead ==
    ASSUME TypeOK, Ratchet, NEW m \in Modes, NEW t \in Trades, TrailRead(m, t)
    PROVE  Ratchet'
<1> USE Lists DEF TypeOK, TrailOK
<1>1. /\ trailing[m] = None /\ t \in trailTodo[m] \ Idle
      /\ trailTodo' = [trailTodo EXCEPT ![m] = @ \ {t}]
      /\ trailing' = [trailing EXCEPT ![m] = t]
      /\ trailFrom' = [trailFrom EXCEPT ![m] = stop[t].level]
      /\ raced' = [raced EXCEPT ![m] = @ \ {t}]
      /\ UNCHANGED <<stop, batch>>
  BY DEF TrailRead
<1>2. batch[m][t] = NoRow
  BY <1>1 DEF Ratchet
<1>3. QED
  BY <1>1, <1>2 DEF Ratchet, NoRow

LEMMA RatchetOne ==
    ASSUME TypeOK, Ratchet, NEW m \in Modes, TrailOne(m)
    PROVE  Ratchet'
<1> USE Lists DEF TypeOK, TrailOK
<1> DEFINE t == trailing[m]
<1>1. /\ t \in Trades /\ UNCHANGED <<stop, trailTodo, raced>>
      /\ trailing' = [trailing EXCEPT ![m] = None]
      /\ trailFrom' = [trailFrom EXCEPT ![m] = 0]
  BY DEF TrailOne
<1>2. CASE UNCHANGED batch
  <2>1. \A n \in Modes : trailing'[n] # None =>
           n # m /\ trailing'[n] = trailing[n] /\ trailFrom'[n] = trailFrom[n]
    BY <1>1
  <2>2. \A n \in Modes : trailing'[n] \in {trailing[n], None}
    BY <1>1
  <2>3. \A n \in Modes : \A u \in trailTodo[n] \ Idle : u # None
    BY DEF Idle
  <2> HIDE DEF t
  <2>4. QED
    BY <1>1, <1>2, <2>1, <2>2, <2>3 DEF Ratchet
<1>3. CASE /\ Trailed(SideOf[t], Entry[t], trailFrom[m], bars[t])
           /\ batch' = [batch EXCEPT ![m][t] =
                          [at |-> clock + 1, level |-> Candidate(bars[t])]]
  <2>1. Candidate(bars[t]) \in Int /\ trailFrom[m] \in Int
    BY <1>1, <1>3, CandidateType DEF Trailed, WorldOK
  <2>0. /\ trailFrom[m] >= ProposalStop[t]
        /\ t \notin raced[m] => trailFrom[m] = stop[t].level
        /\ Candidate(bars[t]) >= trailFrom[m]
    BY <1>1, <1>3, <2>1 DEF Trailed, Ratchet
  <2>2. stop[t].level \in Int /\ ProposalStop[t] \in Int
    BY <1>1, SweepAssumption DEF Rows
  <2>3. /\ Candidate(bars[t]) >= ProposalStop[t]
        /\ t \notin raced[m] => Candidate(bars[t]) >= stop[t].level
    <3> HIDE DEF t
    <3>1. QED
      BY <2>0, <2>1, <2>2
  <2>4. batch'[m][t].level = Candidate(bars[t])
    BY <1>1, <1>3
  <2>5. \A n \in Modes : \A u \in Trades :
           batch'[n][u] = batch[n][u] \/ (n = m /\ u = t)
    BY <1>1, <1>3
  <2>6. t \notin trailTodo[m] \ Idle
    BY DEF Ratchet
  <2> HIDE DEF t
  <2>7. ASSUME NEW n \in Modes, NEW u \in trailTodo'[n] \ Idle
        PROVE  batch'[n][u] = NoRow /\ u # trailing'[n]
    <3>1. u \in trailTodo[n] \ Idle /\ u \in Trades /\ u # None
      BY <1>1, <2>7
    <3>2. batch[n][u] = NoRow /\ u # trailing[n]
      BY <3>1 DEF Ratchet
    <3>3. batch'[n][u] = batch[n][u]
      BY <2>5, <2>6, <3>1
    <3>4. trailing'[n] \in {trailing[n], None}
      BY <1>1
    <3>5. QED
      BY <3>1, <3>2, <3>3, <3>4
  <2>8. \A n \in Modes : trailing'[n] # None =>
           /\ n # m /\ trailing'[n] = trailing[n] /\ trailFrom'[n] = trailFrom[n]
    BY <1>1
  <2>9. \A n \in Modes : \A u \in Trades : batch'[n][u].at > 0 =>
           /\ batch'[n][u].level >= ProposalStop[u]
           /\ u \notin raced[n] => batch'[n][u].level >= stop[u].level
    BY <2>3, <2>4, <2>5 DEF Ratchet
  <2>10. QED
    BY <1>1, <2>7, <2>8, <2>9 DEF Ratchet
<1>4. QED
  BY <1>2, <1>3 DEF TrailOne

LEMMA RatchetEnd ==
    ASSUME TypeOK, Ratchet, NEW m \in Modes, TrailEnd(m)
    PROVE  Ratchet' /\ Kept
<1> USE Lists DEF TypeOK, TrailOK
<1>1. /\ trailing[m] = None /\ UNCHANGED <<trailing, trailFrom>>
      /\ batch' = [batch EXCEPT ![m] = [t \in Trades |-> NoRow]]
      /\ trailTodo' = [trailTodo EXCEPT ![m] = Idle]
      /\ stop' = [t \in Trades |-> Newest(batch[m][t], stop[t])]
      /\ \A n \in Modes \ {m} :
            raced'[n] = raced[n] \cup {t \in Trades : stop'[t] # stop[t]}
  BY DEF TrailEnd
<1>2. ASSUME NEW t \in Trades
      PROVE  /\ stop'[t].level >= ProposalStop[t]
             /\ stop'[t].level < stop[t].level => t \in raced[m]
  <2>1. stop[t] \in Rows /\ batch[m][t] \in Rows
    OBVIOUS
  <2>2. stop'[t] = stop[t] \/ (stop'[t] = batch[m][t] /\ batch[m][t].at > stop[t].at)
    BY <1>1 DEF Newest
  <2>3. /\ stop[t].level \in Int /\ stop[t].at \in Nat
        /\ batch[m][t].level \in Int /\ batch[m][t].at \in Nat
    BY <2>1 DEF Rows
  <2>4. ProposalStop[t] \in Int /\ stop[t].level >= ProposalStop[t]
    BY SweepAssumption DEF Ratchet
  <2>5. batch[m][t].at > 0 =>
           /\ batch[m][t].level >= ProposalStop[t]
           /\ t \notin raced[m] => batch[m][t].level >= stop[t].level
    BY DEF Ratchet
  <2>6. CASE stop'[t] = stop[t]
    BY <2>3, <2>4, <2>6
  <2>7. CASE stop'[t] = batch[m][t] /\ batch[m][t].at > stop[t].at
    BY <2>3, <2>5, <2>7
  <2>8. QED
    BY <2>2, <2>6, <2>7
<1>3. Kept
  BY <1>2 DEF Kept
<1>4. \A n \in Modes \ {m} : \A t \in Trades :
         t \notin raced'[n] => t \notin raced[n] /\ stop'[t] = stop[t]
  <2>1. ASSUME NEW n \in Modes \ {m}, NEW t \in Trades, t \notin raced'[n]
        PROVE  t \notin raced[n] /\ stop'[t] = stop[t]
    <3>1. raced'[n] = raced[n] \cup {u \in Trades : stop'[u] # stop[u]}
      BY <1>1
    <3>2. QED
      BY <2>1, <3>1
  <2>2. QED
    BY <2>1
<1>5. \A t \in Trades : batch'[m][t] = NoRow
  BY <1>1
<1>6. \A n \in Modes \ {m} : batch'[n] = batch[n] /\ trailTodo'[n] = trailTodo[n]
  BY <1>1
<1>7. \A n \in Modes : \A t \in trailTodo'[n] \ Idle : batch'[n][t] = NoRow /\ t # trailing'[n]
  BY <1>1, <1>6 DEF Ratchet
<1>8. ASSUME NEW n \in Modes, trailing'[n] # None
      PROVE  /\ trailFrom'[n] >= ProposalStop[trailing'[n]]
             /\ trailing'[n] \notin raced'[n] =>
                  trailFrom'[n] = stop'[trailing'[n]].level
  <2>1. /\ n # m /\ trailing[n] # None /\ trailing[n] \in Trades
        /\ trailing'[n] = trailing[n] /\ trailFrom'[n] = trailFrom[n]
    BY <1>1, <1>8
  <2>2. /\ trailFrom[n] >= ProposalStop[trailing[n]]
        /\ trailing[n] \notin raced[n] =>
             trailFrom[n] = stop[trailing[n]].level
    BY <2>1 DEF Ratchet
  <2>3. trailing[n] \notin raced'[n] =>
          trailing[n] \notin raced[n] /\ stop'[trailing[n]] = stop[trailing[n]]
    BY <1>4, <2>1
  <2>4. QED
    BY <2>1, <2>2, <2>3
<1>9. \A n \in Modes : \A t \in Trades : batch'[n][t].at > 0 =>
         /\ batch'[n][t].level >= ProposalStop[t]
         /\ t \notin raced'[n] => batch'[n][t].level >= stop'[t].level
  <2>1. ~(NoRow.at > 0)
    BY DEF NoRow
  <2>2. \A n \in Modes : \A t \in Trades : batch[n][t].at > 0 =>
           /\ batch[n][t].level >= ProposalStop[t]
           /\ t \notin raced[n] => batch[n][t].level >= stop[t].level
    BY DEF Ratchet
  <2>3. \A n \in Modes \ {m} : \A t \in Trades : batch'[n][t] = batch[n][t]
    BY <1>6
  <2>4. ASSUME NEW n \in Modes, NEW t \in Trades, batch'[n][t].at > 0
        PROVE  /\ batch'[n][t].level >= ProposalStop[t]
               /\ t \notin raced'[n] => batch'[n][t].level >= stop'[t].level
    <3>1. n # m
      BY <1>5, <2>1, <2>4
    <3>2. batch'[n][t] = batch[n][t] /\ batch[n][t].at > 0
      BY <2>3, <2>4, <3>1
    <3>3. t \notin raced'[n] => t \notin raced[n] /\ stop'[t] = stop[t]
      BY <1>4, <3>1
    <3>4. /\ batch[n][t].level >= ProposalStop[t]
          /\ t \notin raced[n] => batch[n][t].level >= stop[t].level
      BY <2>2, <3>2
    <3>5. QED
      BY <3>2, <3>3, <3>4
  <2>5. QED
    BY <2>4
<1>10. QED
  BY <1>2, <1>3, <1>7, <1>8, <1>9 DEF Ratchet

LEMMA RatchetReset ==
    ASSUME TypeOK, Ratchet, NEW m \in Modes, TrailReset(m) \/ TrailSkips(m), UNCHANGED stop
    PROVE  Ratchet'
<1> USE Lists DEF TypeOK, TrailOK
<1>1. CASE TrailReset(m)
  <2>1. \A n \in Modes \ {m} :
           /\ trailTodo'[n] = trailTodo[n] /\ trailing'[n] = trailing[n]
           /\ trailFrom'[n] = trailFrom[n] /\ batch'[n] = batch[n]
           /\ raced'[n] = raced[n]
    BY <1>1 DEF TrailReset
  <2>2. /\ trailTodo'[m] = Idle /\ trailing'[m] = None
        /\ \A t \in Trades : batch'[m][t] = NoRow
    BY <1>1 DEF TrailReset
  <2>3. ~(NoRow.at > 0)
    BY DEF NoRow
  <2>4. \A n \in Modes : \A t \in trailTodo'[n] \ Idle :
           batch'[n][t] = NoRow /\ t # trailing'[n]
    BY <2>1, <2>2 DEF Ratchet
  <2>5. \A n \in Modes : trailing'[n] # None =>
           /\ trailFrom'[n] >= ProposalStop[trailing'[n]]
           /\ trailing'[n] \notin raced'[n] =>
                trailFrom'[n] = stop[trailing'[n]].level
    BY <2>1, <2>2 DEF Ratchet
  <2>6. \A n \in Modes : \A t \in Trades : batch'[n][t].at > 0 =>
           /\ batch'[n][t].level >= ProposalStop[t]
           /\ t \notin raced'[n] => batch'[n][t].level >= stop[t].level
    BY <2>1, <2>2, <2>3 DEF Ratchet
  <2>7. QED
    BY <2>4, <2>5, <2>6 DEF Ratchet
<1>2. CASE TrailSkips(m)
  <2>1. /\ UNCHANGED <<trailTodo, batch, raced>>
        /\ trailing'[m] = None
        /\ \A n \in Modes \ {m} :
             trailing'[n] = trailing[n] /\ trailFrom'[n] = trailFrom[n]
    BY <1>2 DEF TrailSkips
  <2>2. \A n \in Modes : \A t \in trailTodo[n] \ Idle :
           batch[n][t] = NoRow /\ t # trailing'[n]
    BY <2>1 DEF Ratchet, Idle
  <2>3. QED
    BY <2>1, <2>2 DEF Ratchet
<1>3. QED
  BY <1>1, <1>2

LEMMA RatchetStep ==
    ASSUME TypeOK, Ratchet, [Next]_vars
    PROVE  Ratchet' /\ Kept
<1>0. UNCHANGED stop => Kept
  BY SweepAssumption DEF Kept, Ratchet, TypeOK, TrailOK, Rows
<1>1. ASSUME NEW m \in Modes, TrailStart(m) PROVE Ratchet' /\ Kept
  BY <1>0, <1>1, RatchetStart DEF TrailStart
<1>2. ASSUME NEW m \in Modes, NEW t \in Trades, TrailRead(m, t)
      PROVE  Ratchet' /\ Kept
  BY <1>0, <1>2, RatchetRead DEF TrailRead
<1>3. ASSUME NEW m \in Modes, TrailOne(m) PROVE Ratchet' /\ Kept
  BY <1>0, <1>3, RatchetOne DEF TrailOne
<1>4. ASSUME NEW m \in Modes, TrailEnd(m) PROVE Ratchet' /\ Kept
  BY <1>4, RatchetEnd
<1>5. ASSUME NEW m \in Modes, TrailSkips(m) PROVE Ratchet' /\ Kept
  BY <1>0, <1>5, RatchetReset DEF TrailSkips
<1>6. ASSUME NEW m \in Modes, TrailFails(m) \/ Crash(m) PROVE Ratchet' /\ Kept
  BY <1>0, <1>6, RatchetReset DEF TrailFails, Crash
<1>7. CASE UNCHANGED <<stop, trailTodo, trailing, trailFrom, batch, raced>>
  BY <1>0, <1>7 DEF Ratchet
<1>8. QED
  BY RatchetRest, <1>1, <1>2, <1>3, <1>4, <1>5, <1>6, <1>7

\* For any number of sweeping daemons, whatever bars come in and whatever
\* fails: no stop falls below its proposal's, and only a tick that another
\* daemon raced (trailing_stop_sweep.py reads before it awaits the bars) lowers
\* one at all.
THEOREM RatchetHolds == Spec => StopRatchets
<1>1. Init => Ratchet
  BY SweepAssumption DEF Init, Ratchet, NoRow, Idle
<1>2. TypeOK /\ Ratchet /\ [Next]_vars => Ratchet'
  BY RatchetStep
<1>3. TypeOK /\ Ratchet /\ [Next]_vars
        => [\A t \in Trades :
              /\ stop'[t].level >= ProposalStop[t]
              /\ stop'[t].level < stop[t].level => \E m \in Modes : t \in raced[m]]_vars
  BY RatchetStep DEF Kept
<1>4. QED
  BY <1>1, <1>2, <1>3, TypeCorrect, PTL DEF Spec, StopRatchets

-----------------------------------------------------------------------------
(* One card per trade and reviewing daemon.  A daemon does not review      *)
(* while a request of its last tick waits for its card, so between its     *)
(* look at the open cards and its insert only others may insert.           *)

\* A trade that a daemon assesses, has alerted or requested has no open card of
\* that daemon.
Cards ==
    /\ OneCardOpen
    /\ \A m \in Modes :
         /\ review[m] # Idle => requests[m] = {}
         /\ assessing[m] # None => pending[assessing[m]][m] = 0
         /\ \A t \in requests[m] \cup alerts[m] : pending[t][m] = 0

\* The other actions leave what Cards is about alone.
LEMMA CardsRest ==
    ASSUME TypeOK, [Next]_vars
    PROVE  \/ UNCHANGED <<review, requests, assessing, alerts, pending>>
           \/ \E m \in Modes : ReviewStart(m)
           \/ \E m \in Modes : \E t \in Trades : ReviewOne(m, t)
           \/ \E m \in Modes : \E sell \in BOOLEAN : Assess(m, sell)
           \/ \E m \in Modes : ReviewEnd(m)
           \/ \E m \in Modes : \E t \in Trades : InsertCard(m, t)
           \/ \E m \in Modes : \E t \in Trades : Dismiss(m, t)
           \/ \E m \in Modes : \E t \in Trades : Grant(m, t)
           \/ \E m \in Modes : \E t \in Trades : GrantMcp(m, t)
           \/ \E m \in Modes : ReviewFails(m)
           \/ \E m \in Modes : \E t \in Trades : InsertFails(m, t)
           \/ \E m \in Modes : Crash(m)
<1> DEFINE Goal == UNCHANGED <<review, requests, assessing, alerts, pending>>
<1>1. ASSUME NEW m \in Modes, TrailStart(m) PROVE Goal
  BY <1>1 DEF TrailStart, marketVars, trailVars, hitVars, reviewVars,
       cardVars, closeVars
<1>2. ASSUME NEW m \in Modes, NEW t \in Trades, TrailRead(m, t) PROVE Goal
  BY <1>2 DEF TrailRead, marketVars, trailVars, hitVars, reviewVars,
       cardVars, closeVars
<1>3. ASSUME NEW m \in Modes, TrailOne(m) PROVE Goal
  BY <1>3 DEF TrailOne, marketVars, trailVars, hitVars, reviewVars,
       cardVars, closeVars
<1>4. ASSUME NEW m \in Modes, TrailEnd(m) PROVE Goal
  BY <1>4 DEF TrailEnd, marketVars, trailVars, hitVars, reviewVars,
       cardVars, closeVars
<1>5. ASSUME NEW m \in Modes, HitStart(m) PROVE Goal
  BY <1>5 DEF HitStart, marketVars, trailVars, hitVars, reviewVars,
       cardVars, closeVars
<1>6. ASSUME NEW m \in Modes, NEW t \in Trades, HitBars(m, t) PROVE Goal
  BY <1>6 DEF HitBars, marketVars, trailVars, hitVars, reviewVars,
       cardVars, closeVars
<1>7. ASSUME NEW m \in Modes, HitStop(m) PROVE Goal
  BY <1>7 DEF HitStop, marketVars, trailVars, hitVars, reviewVars,
       cardVars, closeVars
<1>8. ASSUME NEW m \in Modes, HitEnd(m) PROVE Goal
  BY <1>8 DEF HitEnd, marketVars, trailVars, hitVars, reviewVars, cardVars,
       closeVars
<1>9. ASSUME NEW m \in Modes, NEW t \in Trades, CloseStart(m, t) PROVE Goal
  BY <1>9 DEF CloseStart, marketVars, trailVars, hitVars, reviewVars,
       cardVars, closeVars
<1>10. ASSUME NEW m \in Modes, NEW t \in Trades, CloseRefused(m, t) PROVE
     Goal
  BY <1>10 DEF CloseRefused, marketVars, trailVars, hitVars, reviewVars,
       cardVars, closeVars
<1>11. ASSUME NEW m \in Modes, CloseCommit(m) PROVE Goal
  BY <1>11 DEF CloseCommit, marketVars, trailVars, hitVars, reviewVars,
       cardVars, closeVars
<1>12. ASSUME NEW m \in Modes, CloseSwallowed(m) PROVE Goal
  BY <1>12 DEF CloseSwallowed, marketVars, trailVars, hitVars, reviewVars,
       cardVars, closeVars
<1>13. ASSUME NEW m \in Modes, CloseFails(m) PROVE Goal
  BY <1>13 DEF CloseFails, marketVars, trailVars, hitVars, reviewVars,
       cardVars, closeVars
<1>14. ASSUME NEW t \in Trades, NEW bar \in UNION Range(Bars), Sync(t, bar)
     PROVE Goal
  BY <1>14 DEF Sync, marketVars, trailVars, hitVars, reviewVars, cardVars,
       closeVars
<1>15. ASSUME NEW t \in Trades, Fill(t) PROVE Goal
  BY <1>15 DEF Fill, marketVars, trailVars, hitVars, reviewVars, cardVars,
       closeVars
<1>16. ASSUME NEW t \in Trades, SellByHand(t) PROVE Goal
  BY <1>16 DEF SellByHand, marketVars, trailVars, hitVars, reviewVars,
       cardVars, closeVars
<1>17. ASSUME NEW m \in Modes, TrailSkips(m) PROVE Goal
  BY <1>17 DEF TrailSkips, marketVars, trailVars, hitVars, reviewVars,
       cardVars, closeVars
<1>18. ASSUME NEW m \in Modes, HitSkips(m) PROVE Goal
  BY <1>18 DEF HitSkips, marketVars, trailVars, hitVars, reviewVars,
       cardVars, closeVars
<1>19. ASSUME NEW m \in Modes, TrailFails(m) PROVE Goal
  BY <1>19 DEF TrailFails, TrailReset, marketVars, trailVars, hitVars,
       reviewVars, cardVars, closeVars
<1>20. ASSUME NEW m \in Modes, HitFails(m) PROVE Goal
  BY <1>20 DEF HitFails, HitReset, marketVars, trailVars, hitVars,
       reviewVars, cardVars, closeVars
<1>21. CASE UNCHANGED vars
  BY <1>21 DEF vars, marketVars, trailVars, hitVars, reviewVars, cardVars, closeVars
<1>22. QED
  BY <1>1, <1>2, <1>3, <1>4, <1>5, <1>6, <1>7, <1>8, <1>9, <1>10, <1>11,
       <1>12, <1>13, <1>14, <1>15, <1>16, <1>17, <1>18, <1>19, <1>20, <1>21
       DEF Next, TrailNext, HitNext, CloseNext, ReviewNext, FaultNext,
       WorldNext

LEMMA CardsStep == TypeOK /\ Cards /\ [Next]_vars => Cards'
<1> SUFFICES ASSUME TypeOK, Cards, [Next]_vars PROVE Cards'
  OBVIOUS
<1> USE Lists
<1>0. ReviewOK /\ CardOK
  BY DEF TypeOK
<1>1. ASSUME NEW m \in Modes, ReviewStart(m) PROVE Cards'
  BY <1>0, <1>1 DEF ReviewStart, Cards, OneCardOpen, ReviewOK, CardOK, cardVars
<1>2. ASSUME NEW m \in Modes, NEW t \in Trades, ReviewOne(m, t) PROVE Cards'
  <2>1. /\ UNCHANGED <<requests, pending, alerts>> /\ review[m] # Idle
        /\ review' = [review EXCEPT ![m] = @ \ {t}]
        /\ assessing' = [assessing EXCEPT ![m] =
                           IF CardOpen(t) \/ t \notin evidence[m] THEN None ELSE t]
    BY <1>0, <1>2 DEF ReviewOne, ReviewOK, cardVars
  <2>2. assessing'[m] # None => pending[t][m] = 0 /\ assessing'[m] = t
    BY <1>0, <2>1 DEF ReviewOK, CardOK, CardOpen
  <2>3. QED
    BY <1>0, <2>1, <2>2 DEF Cards, OneCardOpen, ReviewOK, CardOK
<1>3. ASSUME NEW m \in Modes, NEW sell \in BOOLEAN, Assess(m, sell)
      PROVE  Cards'
  <2>1. \A n \in Modes : \A t \in alerts'[n] :
           t \in alerts[n] \/ (n = m /\ t = assessing[m])
    BY <1>0, <1>3 DEF Assess, ReviewOK
  <2>2. /\ assessing[m] # None /\ UNCHANGED <<review, requests, pending>>
        /\ assessing' = [assessing EXCEPT ![m] = None]
    BY <1>3 DEF Assess, cardVars
  <2>3. QED
    BY <1>0, <2>1, <2>2 DEF Cards, OneCardOpen, ReviewOK, CardOK
<1>4. ASSUME NEW m \in Modes, ReviewEnd(m) PROVE Cards'
  BY <1>0, <1>4 DEF ReviewEnd, Cards, OneCardOpen, ReviewOK, CardOK
<1>5. ASSUME NEW m \in Modes, NEW t \in Trades, InsertCard(m, t) PROVE Cards'
  <2>1. /\ t \in requests[m] /\ UNCHANGED <<review, assessing, alerts>>
        /\ requests' = [requests EXCEPT ![m] = @ \ {t}]
        /\ pending' = [pending EXCEPT ![t][m] = @ + 1]
    BY <1>5 DEF InsertCard, reviewVars
  <2>2. /\ pending[t][m] = 0 /\ review[m] = Idle
        /\ assessing[m] = None /\ alerts[m] = {}
    BY <1>0, <2>1 DEF Cards, ReviewOK
  <2>3. /\ pending'[t][m] = 1
        /\ \A u \in Trades : \A n \in Modes :
              (u = t /\ n = m) \/ pending'[u][n] = pending[u][n]
    BY <1>0, <2>1, <2>2 DEF CardOK
  <2>4. OneCardOpen'
    BY <2>3 DEF Cards, OneCardOpen
  <2>5. /\ requests'[m] = requests[m] \ {t}
        /\ \A n \in Modes \ {m} : requests'[n] = requests[n]
    BY <1>0, <2>1 DEF CardOK
  <2>6. QED
    BY <1>0, <2>1, <2>2, <2>3, <2>4, <2>5 DEF Cards, ReviewOK, CardOK
<1>6. ASSUME NEW m \in Modes, NEW t \in Trades,
             Dismiss(m, t) \/ Grant(m, t) \/ GrantMcp(m, t)
      PROVE  Cards'
  <2>1. /\ pending[t][m] > 0 /\ UNCHANGED <<review, assessing, alerts, requests>>
        /\ pending' = [pending EXCEPT ![t][m] = @ - 1]
    BY <1>6 DEF Dismiss, Grant, GrantMcp, Answer, reviewVars
  <2>2. \A u \in Trades : \A n \in Modes :
           /\ pending[u][n] \in Nat
           /\ pending'[u][n] = pending[u][n] \/ pending'[u][n] = pending[u][n] - 1
           /\ pending[u][n] = 0 => pending'[u][n] = 0
    BY <1>0, <2>1 DEF CardOK
  <2>3. OneCardOpen'
    BY <2>2 DEF Cards, OneCardOpen
  <2>4. QED
    BY <1>0, <2>1, <2>2, <2>3 DEF Cards, ReviewOK, CardOK
<1>7. ASSUME NEW m \in Modes, ReviewFails(m) PROVE Cards'
  BY <1>0, <1>7 DEF ReviewFails, ReviewReset, Cards, OneCardOpen, ReviewOK,
     CardOK, cardVars
<1>8. ASSUME NEW m \in Modes, NEW t \in Trades, InsertFails(m, t) PROVE Cards'
  BY <1>0, <1>8 DEF InsertFails, Cards, OneCardOpen, ReviewOK, CardOK,
     reviewVars
<1>9. ASSUME NEW m \in Modes, Crash(m) PROVE Cards'
  BY <1>0, <1>9 DEF Crash, ReviewReset, Cards, OneCardOpen, ReviewOK, CardOK
<1>10. CASE UNCHANGED <<review, requests, assessing, alerts, pending>>
  BY <1>10 DEF Cards, OneCardOpen
<1>11. QED
  BY CardsRest, <1>1, <1>2, <1>3, <1>4, <1>5, <1>6, <1>7, <1>8, <1>9, <1>10

\* However many daemons review at the same minute, each has at most one exit
\* card of a trade to answer (has_pending_exit_for_trade).
THEOREM CardsBounded == Spec => []OneCardOpen
<1>1. Init => Cards
  BY SweepAssumption DEF Init, Cards, OneCardOpen
<1>2. Cards => OneCardOpen
  BY DEF Cards
<1>3. QED
  BY <1>1, <1>2, CardsStep, TInit, TStep, PTL DEF Spec

-----------------------------------------------------------------------------
(* What a clean reconciliation says of a trade.                            *)

\* One resting leg, at the intended level.
InPlace(legs, intended) ==
    \E o \in legs : legs = {o} /\ ~(Abs(o.level - intended) > Tolerance)

\* The broker holds the trade's size under the trade's own protective orders.
Protected(t, trades, positions, orders) ==
    /\ \E p \in positions : p.symbol = t.symbol
    /\ \A p \in positions : p.symbol = t.symbol => Abs(p.quantity) = t.quantity
    /\ \A o \in trades : o.symbol = t.symbol => o = t
    /\ InPlace(Resting(t, orders, "stop"), t.stop)
    /\ IF t.target = 0 THEN Cardinality(Resting(t, orders, "target")) <= 1
       ELSE InPlace(Resting(t, orders, "target"), t.target)

LEMMA OneElement ==
    ASSUME NEW S, IsFiniteSet(S)
    PROVE  (S # {} /\ ~(Cardinality(S) > 1)) <=> \E x \in S : S = {x}
<1>1. ASSUME S # {}, ~(Cardinality(S) > 1) PROVE \E x \in S : S = {x}
  <2>1. PICK x \in S : TRUE
    BY <1>1
  <2>2. IsFiniteSet(S \ {x}) /\ Cardinality(S \ {x}) = Cardinality(S) - 1
    BY FS_RemoveElement
  <2>3. Cardinality(S) \in Nat /\ Cardinality(S \ {x}) \in Nat
    BY <2>2, FS_CardinalityType
  <2>4. Cardinality(S \ {x}) = 0
    BY <1>1, <2>2, <2>3
  <2>5. S \ {x} = {}
    BY <2>2, <2>4, FS_EmptySet
  <2> QED
    BY <2>5
<1>2. ASSUME NEW x \in S, S = {x} PROVE S # {} /\ ~(Cardinality(S) > 1)
  BY <1>2, FS_Singleton
<1> QED
  BY <1>1, <1>2

LEMMA LegIsClean ==
    ASSUME NEW legs, IsFiniteSet(legs), NEW kind, NEW intended
    PROVE  LegsAmbiguous(kind, legs) = {} /\ LegDivergence(kind, intended, legs) = {}
             <=> InPlace(legs, intended)
<1>1. LegsAmbiguous(kind, legs) = {} <=> ~(Cardinality(legs) > 1)
  BY DEF LegsAmbiguous
<1>2. LegDivergence(kind, intended, legs) = {}
        <=> legs # {} /\ ~(\E o \in legs : Abs(o.level - intended) > Tolerance)
  BY DEF LegDivergence
<1> QED
  BY <1>1, <1>2, OneElement DEF InPlace

\* The daily review reports nothing about a trade exactly when its position
\* has the right size, no other trade shares the symbol, and one stop leg, and
\* one target leg if it has a target, rests within the tolerance, for any
\* positions and orders of the account (reconcile_positions).  Of the size of
\* the legs it says nothing: the code does not look at it.
THEOREM CleanIsProtected ==
    ASSUME NEW trades, NEW t \in trades, NEW positions,
           NEW orders, IsFiniteSet(orders)
    PROVE  Divergences(t, trades, positions, orders) = {}
             <=> Protected(t, trades, positions, orders)
<1> DEFINE Legs(kind) == Resting(t, orders, kind)
<1>1. \A kind : IsFiniteSet(Legs(kind)) /\ Cardinality(Legs(kind)) \in Nat
  <2>1. \A kind : Legs(kind) \subseteq orders
    BY DEF Resting
  <2> QED
    BY <2>1, FS_Subset, FS_CardinalityType
<1>2. SizeDivergence(t, positions) = {}
        <=> /\ \E p \in positions : p.symbol = t.symbol
            /\ \A p \in positions : p.symbol = t.symbol => Abs(p.quantity) = t.quantity
  BY DEF SizeDivergence
<1>3. ~Ambiguous(t, trades) <=> \A o \in trades : o.symbol = t.symbol => o = t
  BY DEF Ambiguous
<1>4. LegsAmbiguous("stop", Legs("stop")) = {}
        /\ LegDivergence("stop", t.stop, Legs("stop")) = {}
        <=> InPlace(Legs("stop"), t.stop)
  BY <1>1, LegIsClean
<1>5. LegsAmbiguous("target", Legs("target")) = {}
        /\ LegDivergence("target", t.target, Legs("target")) = {}
        <=> InPlace(Legs("target"), t.target)
  BY <1>1, LegIsClean
<1>6. LegsAmbiguous("target", Legs("target")) = {} <=> Cardinality(Legs("target")) <= 1
  <2>1. Cardinality(Legs("target")) \in Nat
    BY <1>1
  <2> HIDE DEF Legs
  <2>2. ~(Cardinality(Legs("target")) > 1) <=> Cardinality(Legs("target")) <= 1
    BY <2>1
  <2> QED
    BY <2>2 DEF LegsAmbiguous
<1>7. Divergences(t, trades, positions, orders) = {}
        <=> /\ SizeDivergence(t, positions) = {}
            /\ ~Ambiguous(t, trades)
            /\ LegsAmbiguous("stop", Legs("stop")) = {}
            /\ LegsAmbiguous("target", Legs("target")) = {}
            /\ LegDivergence("stop", t.stop, Legs("stop")) = {}
            /\ t.target # 0 => LegDivergence("target", t.target, Legs("target")) = {}
  BY DEF Divergences
<1> QED
  BY <1>2, <1>3, <1>4, <1>5, <1>6, <1>7 DEF Protected
===============================================================================

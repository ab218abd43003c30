--------------------------- MODULE StopManagement ---------------------------
(***************************************************************************)
(* The pure functions of position protection: compute_trailing_stop        *)
(* (contexts/risk/stop_management.py), the level comparisons of            *)
(* stop_hit_sweep.py and reconcile_positions (position_review.py).         *)
(*                                                                         *)
(* Prices are integers.  The code divides decimals; \div is exact when the *)
(* true ranges of an instance add up to multiples of their number.         *)
(***************************************************************************)
EXTENDS Integers, Sequences, FiniteSets, FiniteSetsExt

CONSTANTS
    Trigger,     \* trail_trigger_pct, in percent of the entry price
    AtrMult,     \* trail_atr_mult
    Tolerance    \* how far a resting level may be off

Sides == {"buy", "sell"}

Abs(n) == IF n < 0 THEN -n ELSE n

HighestClose(bars) == Max({bars[i].close : i \in DOMAIN bars})

TrueRange(prev, cur) ==
    Max({cur.high - cur.low, Abs(cur.high - prev.close),
         Abs(cur.low - prev.close)})

\* The mean of the true ranges of at least two bars.
MeanTrueRange(bars) ==
    LET pairs == 2..Len(bars)
    IN  MapThenSumSet(LAMBDA i : TrueRange(bars[i - 1], bars[i]), pairs)
          \div Cardinality(pairs)

\* The favourable move of a long has reached the trigger; shorts never trail.
Favourable(side, entry, bars) ==
    /\ side = "buy" /\ bars # <<>>
    /\ (HighestClose(bars) - entry) * 100 >= Trigger * entry

Candidate(bars) == HighestClose(bars) - AtrMult * MeanTrueRange(bars)

\* A bug: the candidate replaces the stop whether it is higher or not.
TrailedAnyway(side, entry, stop, bars) ==
    Favourable(side, entry, bars) /\ Len(bars) > 1

\* Whether compute_trailing_stop answers "trailed", on the bars after entry.
Trailed(side, entry, stop, bars) ==
    /\ Favourable(side, entry, bars)
    /\ Len(bars) > 1
    /\ Candidate(bars) > stop

IsStopHit(side, close, stop) ==
    IF side = "buy" THEN close <= stop ELSE close >= stop

IsTargetHit(side, close, target) ==
    IF side = "buy" THEN close >= target ELSE close <= target

-----------------------------------------------------------------------------
(* reconcile_positions for one open trade: the protective orders resting   *)
(* on its exit side and what is not as intended.                           *)

ExitAction(side) == IF side = "buy" THEN "SELL" ELSE "BUY"

Resting(trade, orders, kind) ==
    {o \in orders : /\ o.symbol = trade.symbol
                    /\ o.action = ExitAction(trade.side)
                    /\ o.kind = kind}

LegsAmbiguous(kind, legs) ==
    IF Cardinality(legs) > 1 THEN {<<kind, "ambiguous">>} ELSE {}

\* Of several legs the code compares the first; they diverge in any case.
LegDivergence(kind, intended, legs) ==
    IF legs = {} THEN {<<kind, "missing_at_broker">>}
    ELSE IF \E o \in legs : Abs(o.level - intended) > Tolerance
         THEN {<<kind, "level_mismatch">>} ELSE {}

\* Two open trades of a symbol: no leg is attributed to either.
Ambiguous(trade, trades) == \E o \in trades \ {trade} : o.symbol = trade.symbol

SizeDivergence(trade, positions) ==
    LET own == {p \in positions : p.symbol = trade.symbol}
    IN  IF own = {} THEN {<<"position", "missing_at_broker">>}
        ELSE IF \E p \in own : Abs(p.quantity) # trade.quantity
             THEN {<<"position", "size_mismatch">>} ELSE {}

\* The size of a leg is not compared.
Divergences(trade, trades, positions, orders) ==
    LET stops == Resting(trade, orders, "stop")
        targets == Resting(trade, orders, "target")
    IN  SizeDivergence(trade, positions)
        \cup IF Ambiguous(trade, trades) THEN {<<"trades", "ambiguous">>}
             ELSE LegsAmbiguous("stop", stops) \cup LegsAmbiguous("target", targets)
                  \cup LegDivergence("stop", trade.stop, stops)
                  \cup IF trade.target = 0 THEN {}
                       ELSE LegDivergence("target", trade.target, targets)
=============================================================================

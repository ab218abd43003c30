---------------------------- MODULE MCRiskControl ----------------------------
(* Small instances of RiskControl for TLC: percentages of small equities.   *)
EXTENDS RiskControl

CONSTANTS paper, live, cli, bot

MCCaps == [per_trade |-> 20, daily |-> 5, weekly |-> 10, open |-> 1,
           drawdown |-> 15, streak |-> 1, lookback |-> 5, cooldown |-> 1]
MCNotionals == {2}
MCEquities == {20, 30}
MCResults == {-1}
===============================================================================

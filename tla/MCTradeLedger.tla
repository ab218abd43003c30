---------------------------- MODULE MCTradeLedger ----------------------------
(* Small instances of TradeLedger for TLC: one or two daemons, one trade.    *)
EXTENDS TradeLedger

CONSTANTS paper, live, t1

MCAllPaper == [t \in Trades |-> paper]
MCAllLive == [t \in Trades |-> live]
MCSymbolOf == [t \in Trades |-> t]
===============================================================================

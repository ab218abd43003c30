---------------------------- MODULE MCStopSweeps ----------------------------
(***************************************************************************)
(* Small instances of StopSweeps for TLC: one long of entry price 10 with  *)
(* its stop at 6 and its target at 20.  A second quiet day trails the stop to  *)
(* 10, a wild one gives a lower candidate, a low one falls through a       *)
(* trailed stop and a deep one through any.                                *)
(***************************************************************************)
EXTENDS StopSweeps, TLC

CONSTANTS t1, paper, live

MCModeOf == t1 :> live
MCSideOf == t1 :> "buy"
MCEntry == t1 :> 10
MCProposalStop == t1 :> 6
MCTarget == t1 :> 20

Bar(high, low, close) == [high |-> high, low |-> low, close |-> close]
Quiet == Bar(13, 11, 12)
Wild == Bar(14, 10, 12)
Low == Bar(10, 8, 8)
Deep == Bar(8, 5, 5)
MCBars == <<{Quiet}, {Quiet, Deep}, {Wild, Low}>>
=============================================================================

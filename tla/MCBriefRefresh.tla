---------------------------- MODULE MCBriefRefresh ----------------------------
(***************************************************************************)
(* A small instance of BriefRefresh for TLC: the daily jobs of two daemons *)
(* over the same watchlist and a request for its first symbol.             *)
(***************************************************************************)
EXTENDS BriefRefresh, TLC

CONSTANTS d1, d2, r1, s1, s2

MCWatch == [j \in Jobs |-> IF j = d1 THEN <<s1, s2>> ELSE <<s1>>]

===============================================================================

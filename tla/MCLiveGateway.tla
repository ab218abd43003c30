---------------------------- MODULE MCLiveGateway ----------------------------
(* The links of the two daemons, with the code's defaults in ticks of 30 s. *)
EXTENDS LiveGateway

CONSTANTS e1, e2, o1, o2
TwoExecs == {e1, e2}
TwoOrders == {o1, o2}
=============================================================================

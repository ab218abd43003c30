------------------------------ MODULE MCApproval ------------------------------
(* Small instances of Approval for TLC: an entry card and an exit card, the  *)
(* paper daemon (which polls Telegram) and the live daemon.                  *)
EXTENDS Approval, TLC

CONSTANTS entry1, entry2, exit1, paper, live
===============================================================================

--------------------------- MODULE ApprovalContract ---------------------------
(***************************************************************************)
(* What human approval promises the rest of iguanatrader, whatever number  *)
(* of channels, daemons and sweepers race for a card: the first decision   *)
(* wins and is never changed, nobody times a card out before it expires,   *)
(* and the trading side is told to act only on cards that were granted.    *)
(***************************************************************************)
CONSTANT Requests      \* the approval cards

VARIABLES
    row,        \* "absent", "open" or "expired"
    decision,   \* the outcome of the card, "none" while it is pending
    actedOn     \* the cards the trading side was told to act on

vars == <<row, decision, actedOn>>

Outcomes == {"granted", "rejected", "timeout"}

Init ==
    /\ row = [r \in Requests |-> "absent"]
    /\ decision = [r \in Requests |-> "none"]
    /\ actedOn = {}

Ask(r) ==
    /\ row[r] = "absent"
    /\ row' = [row EXCEPT ![r] = "open"]
    /\ UNCHANGED <<decision, actedOn>>

Expire(r) ==
    /\ row[r] = "open"
    /\ row' = [row EXCEPT ![r] = "expired"]
    /\ UNCHANGED <<decision, actedOn>>

\* One unit of work may decide several cards: a tick of the timeout sweep.
Decide(S, outcome) ==
    /\ S # {}
    /\ \A r \in S : /\ decision[r] = "none"
                    /\ row[r] # "absent"
                    /\ outcome = "timeout" => row[r] = "expired"
    /\ decision' = [r \in Requests |-> IF r \in S THEN outcome ELSE decision[r]]
    /\ UNCHANGED <<row, actedOn>>

Act(r) ==
    /\ decision[r] = "granted"
    /\ actedOn' = actedOn \cup {r}
    /\ UNCHANGED <<row, decision>>

Next ==
    \/ \E r \in Requests : Ask(r) \/ Expire(r) \/ Act(r)
    \/ \E S \in SUBSET Requests, outcome \in Outcomes : Decide(S, outcome)

Spec == Init /\ [][Next]_vars
===============================================================================

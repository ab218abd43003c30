---------------------------- MODULE LedgerContract ----------------------------
(***************************************************************************)
(* What the ledger of trades promises the rest of iguanatrader, whatever   *)
(* number of daemons reconcile it at once, fail half-way or start again: a *)
(* trade is opened once, its exit is recorded once, every lot on the books *)
(* is a lot some account executed for a recorded order, booked once, and a *)
(* trade ends only when an exit order is booked in full or when the broker *)
(* no longer shows a position the ledger has lots of.                      *)
(***************************************************************************)
EXTENDS Integers, Functions

CONSTANTS
    Trades,
    Accounts,    \* one for each daemon
    Exits,       \* the roles of the orders that sell
    Lots         \* the parts an order may be executed in

Roles == Exits \cup {"entry"}

VARIABLES
    state,       \* trades.state, "none" without a row
    orders,      \* the roles of the orders recorded for a trade
    booked,      \* the lots on the books
    executed     \* the lots an account executed

vars == <<state, orders, booked, executed>>

Nothing == [a \in Accounts |-> [t \in Trades |-> [r \in Roles |-> 0]]]

Init ==
    /\ state = [t \in Trades |-> "none"]
    /\ orders = [t \in Trades |-> {}]
    /\ booked = Nothing
    /\ executed = Nothing

\* The entry is recorded, with its protective legs or without.
Open(t, legs) ==
    /\ state[t] = "none" /\ orders[t] = {}
    /\ state' = [state EXCEPT ![t] = "open"]
    /\ orders' = [orders EXCEPT ![t] = {"entry"} \cup legs]
    /\ UNCHANGED <<booked, executed>>

OrderExit(t) ==
    /\ state[t] # "none" /\ "exit" \notin orders[t]
    /\ state' = [state EXCEPT ![t] = "closing"]
    /\ orders' = [orders EXCEPT ![t] = @ \cup {"exit"}]
    /\ UNCHANGED <<booked, executed>>

Execute(a, t, r) ==
    /\ executed' = [executed EXCEPT ![a][t][r] = @ + 1]
    /\ UNCHANGED <<state, orders, booked>>

\* The lots booked for an order, from whichever account.
Total(t, r) == SumFunction([a \in Accounts |-> booked[a][t][r]])

Book(a, t, r) ==
    /\ state[t] # "none" /\ r \in orders[t]
    /\ booked[a][t][r] < executed[a][t][r]
    /\ booked' = [booked EXCEPT ![a][t][r] = @ + 1]
    /\ state' = IF r \in Exits /\ Total(t, r) + 1 >= Lots
                THEN [state EXCEPT ![t] = "closed"] ELSE state
    /\ UNCHANGED <<orders, executed>>

\* Trades the broker no longer shows, of which lots are booked.
Settle(S) ==
    /\ \A t \in S : /\ state[t] \in {"open", "closing"}
                    /\ \E a \in Accounts, r \in Roles : booked[a][t][r] > 0
    /\ state' = [t \in Trades |-> IF t \in S THEN "closed" ELSE state[t]]
    /\ UNCHANGED <<orders, booked, executed>>

Next ==
    \/ \E t \in Trades :
          \/ \E legs \in SUBSET (Exits \ {"exit"}) : Open(t, legs)
          \/ OrderExit(t)
          \/ \E a \in Accounts, r \in Roles : Execute(a, t, r) \/ Book(a, t, r)
    \/ \E S \in SUBSET Trades : Settle(S)

Spec == Init /\ [][Next]_vars
===============================================================================

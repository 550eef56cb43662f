---------------------------- MODULE CandleOrders ----------------------------
(***************************************************************************)
(* What the trading worker promises about candles and broker orders,       *)
(* whatever happens to its process, its database session or its broker     *)
(* connection: the candles it takes up are claimed in increasing order,    *)
(* and a claim can place at most one order, for the candle that was        *)
(* claimed last.  A claim that is dropped is never taken up again.         *)
(***************************************************************************)
EXTENDS Integers

VARIABLES
    claimed,    \* newest candle that has been claimed, 0 before the first
    live,       \* the last claim may still place an order
    ordered     \* candles for which an order has reached the broker

vars == <<claimed, live, ordered>>

Init ==
    /\ claimed = 0
    /\ live = FALSE
    /\ ordered = {}

Claim ==
    /\ claimed' \in Nat
    /\ claimed' > claimed
    /\ live' \in BOOLEAN
    /\ UNCHANGED ordered

Drop ==
    /\ live
    /\ live' = FALSE
    /\ UNCHANGED <<claimed, ordered>>

Place ==
    /\ live
    /\ claimed \notin ordered
    /\ ordered' = ordered \cup {claimed}
    /\ live' = FALSE
    /\ UNCHANGED claimed

Next == Claim \/ Drop \/ Place

Spec == Init /\ [][Next]_vars
=============================================================================

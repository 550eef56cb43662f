--------------------------- MODULE MCTradeFeedback ---------------------------
(***************************************************************************)
(* TLC instance of TradeFeedback: two accounts, two strategies, gains and   *)
(* losses of different size.                                               *)
(***************************************************************************)
EXTENDS TradeFeedback

MCProfits == {-2, 1}

=============================================================================
